---- MODULE Spec2Model ----
(***************************************************************************)
(* A model of the workflow state engine of spec-workflow-mcp:              *)
(*   - the manage-tasks tool handler over tasks.md (src/tools/manage-tasks)*)
(*   - the approval record life cycle and the get-approval-status handler  *)
(*   - GitignoreManager.ensure and its retrying write                      *)
(* Text is modelled as a sequence of one-character strings, so that        *)
(* parsing, trimming and marker replacement are computed character by      *)
(* character.                                                              *)
(***************************************************************************)
EXTENDS Integers, Sequences, FiniteSets, TLC

VARIABLES
    file,       \* tasks.md: the text on disk
    pc,         \* pc[p]: position of handler invocation p ("idle", "read", "write", "done")
    call,       \* call[p]: the arguments of invocation p
    content,    \* content[p]: tasksContent, the text p read (line 52)
    result,     \* result[p]: the ToolResponse p returned
    lastWriter, \* the invocation whose writeFile ran last (0: none yet)
    prevResult, \* prevResult[p]: the response to the call p repeats
    raised,     \* raised[p]: the code of the error readFile or writeFile raised in
                \* invocation p ("none": no error)
    approval,   \* the persisted approval record
    responds,   \* the respond calls made so far, in call order, with their outcome
    polled,     \* what get-approval-status returned last
    rpc,        \* rpc[p]: position of overlapping respond call p ("idle", "read", "done")
    rargs,      \* rargs[p]: the status, response and comments call p passes
    rread,      \* rread[p]: the record call p read
    rorder,     \* the respond calls that wrote the record, in the order of their writes
    gitignore,  \* the .gitignore at the repository root: [exists, text]
    repo,       \* TRUE when findGitRoot finds a .git above the project path
    cfg,        \* cfg[p]: the settings of ensure caller p
    gpc,        \* gpc[p]: position of ensure call p
    toWrite,    \* toWrite[p]: the content handed to writeFileWithRetry
    kind,       \* kind[p]: the action the call reports when its write succeeds
    attempt,    \* attempt[p]: loop counter of writeFileWithRetry
    writes,     \* writes[p]: outcome of every writeFile attempt of the call
    waits,      \* waits[p]: every backoff delay of the call, in ms
    gresult,    \* gresult[p]: the GitignoreResult returned
    before,     \* before[p]: the .gitignore when the call started
    prev,       \* prev[p]: the action the caller's previous call returned
    calls,      \* calls[p]: number of ensure calls p has started
    ensured,    \* the project roots whose ignore-file step has been started
    invocations,\* invocations[r]: bootstrap invocations made for root r
    runs,       \* runs[r]: ensure calls made on behalf of root r
    pcomments,  \* the comment list handed to generateRevisionPrompt
    pfeedback,  \* the general feedback handed to it ("" when absent)
    prompt,     \* the sections of the prompt it returned
    alive,          \* TRUE while the component using useTextSelection is mounted
    isMounted,      \* isMountedRef.current
    containerProp,  \* options.container of the last render
    containerRef,   \* containerRef.current
    registered,     \* the hook's listeners registered with the DOM: <<element, type>>
    debounceTimeout,\* ms until the debounce timer fires (-1: none pending)
    delayTimeout,   \* ms until the mouseup/touchend delay timer fires (-1: none pending)
    selection,      \* what window.getSelection() holds: [text, place]
    selectionState, \* the hook's state: [selectedText, isActive]
    source,         \* where the selection published in selectionState lay
    elapsed,        \* ms since handleSelectionChange last ran (-1: never)
    published,      \* state updates by selection processing since it last ran
    lateUpdate,     \* TRUE once setSelectionState was called after unmount
    signalOk,       \* the DOM honours the signal option of addEventListener
    removeThrows,   \* removeEventListener throws and removes nothing
    minLength,      \* options.minLength
    rangeError,     \* reading the range threw when the selection was last processed
    warned,         \* console.warn was called when the selection was last processed
    liveDebounce,   \* the debounce timers of the hook that the browser holds pending
    liveDelay,      \* the delay timers of the hook that the browser holds pending
    lastCleared,    \* the kind of pending timer that the step just taken cancelled in
                    \* order to schedule another ("none" when it cancelled none)
    bpc,        \* position of the version-bump script ("main", "tag", "diff", "api",
                \* "answered", "exit")
    apiKey,     \* TRUE when ANTHROPIC_API_KEY is set
    latestTag,  \* what getLatestTag returned (NoChars: null)
    commits,    \* changes.commits, the commit messages since the tag
    apiResponse,\* how the request to the API ended: its answer or its failure
    stdout,     \* the lines the script has written to standard output
    stderr,     \* the lines it has written to standard error
    exitCode,   \* the exit code of the process (-1 while it runs)
    wpc,        \* position of findGitRoot ("loop", "done")
    startPath,  \* path.resolve(startPath): the directory the walk starts in
    homePath,   \* os.homedir()
    gitEntry,   \* gitEntry[d]: what '.git' is in directory d ("none" when absent)
    currentPath,\* the directory the loop is at
    examined,   \* the directories whose '.git' the loop has looked up with stat
    gitRoot,    \* what findGitRoot returned (NoPath: null)
    timeoutCount,   \* metrics.timeoutCount of the PerformanceMonitor
    timers,         \* timers[id]: the state of the timeout with that id ("unused",
                    \* "pending", "fired", "cleared")
    removal,    \* the removePattern call made: [called, removed]
    hpc,        \* position of getApprovalStatusHandler ("idle", "validate", "start",
                \* "get", "stop", "respond", "done")
    storage,    \* the ApprovalStorage of the call ("none", "started", "stopped")
    hfound      \* getApproval returned a record

taskVars == <<file, pc, call, content, result, lastWriter, prevResult, raised>>

respondVars == <<rpc, rargs, rread, rorder>>

approvalVars == <<approval, responds, polled, respondVars>>

gitVars == <<gitignore, repo, cfg, gpc, toWrite, kind, attempt, writes, waits,
             gresult, before, prev, calls>>

memoVars == <<ensured, invocations, runs>>

promptVars == <<pcomments, pfeedback, prompt>>

hookVars == <<alive, isMounted, containerProp, containerRef, registered,
              debounceTimeout, delayTimeout, selection, selectionState, source,
              elapsed, published, lateUpdate, signalOk, removeThrows,
              minLength, rangeError, warned, liveDebounce, liveDelay, lastCleared>>

bumpVars == <<bpc, apiKey, latestTag, commits, apiResponse, stdout, stderr, exitCode>>

walkVars == <<wpc, startPath, homePath, gitEntry, currentPath, examined, gitRoot>>

monitorVars == <<timeoutCount, timers>>

handlerVars == <<hpc, storage, hfound>>

vars == <<taskVars, approvalVars, gitVars, memoVars, promptVars, hookVars, bumpVars,
          walkVars, monitorVars, removal, handlerVars>>

\* what the steps of one component leave alone
notTaskVars == <<approvalVars, gitVars, memoVars, promptVars, hookVars, bumpVars,
    walkVars, monitorVars, removal, handlerVars>>

notApprovalVars == <<taskVars, gitVars, memoVars, promptVars, hookVars, bumpVars,
    walkVars, monitorVars, removal, handlerVars>>

notGitVars == <<taskVars, approvalVars, memoVars, promptVars, hookVars, bumpVars,
    walkVars, monitorVars, removal, handlerVars>>

notMemoVars == <<taskVars, approvalVars, promptVars, hookVars, bumpVars,
    walkVars, monitorVars, removal, handlerVars>>

notPromptVars == <<taskVars, approvalVars, gitVars, memoVars, hookVars, bumpVars,
    walkVars, monitorVars, removal, handlerVars>>

notBumpVars == <<taskVars, approvalVars, gitVars, memoVars, promptVars, hookVars,
    walkVars, monitorVars, removal, handlerVars>>

notWalkVars == <<taskVars, approvalVars, gitVars, memoVars, promptVars, hookVars, bumpVars,
    monitorVars, removal, handlerVars>>

notMonitorVars == <<taskVars, approvalVars, gitVars, memoVars, promptVars, hookVars, bumpVars,
    walkVars, removal, handlerVars>>

\* what removePattern and the steps of its write leave alone
notRemoveVars == <<taskVars, approvalVars, memoVars, promptVars, hookVars, bumpVars,
    walkVars, monitorVars, handlerVars>>

\* what the steps of getApprovalStatusHandler leave alone
notStatusVars == <<taskVars, gitVars, memoVars, promptVars, hookVars, bumpVars,
    walkVars, monitorVars, removal>>

notHookVars == <<taskVars, approvalVars, gitVars, memoVars, promptVars, bumpVars,
    walkVars, monitorVars, removal, handlerVars>>

\* the project roots a process bootstraps
Roots == {"/a", "/b"}

\* ---------------------------------------------------------------- bounds

MaxLines == 2

MaxResponds == 2

MaxGitLines == 2

MaxCalls == 2

MaxComments == 3

Procs == {1, 2}

\* ------------------------------------------------------------ text helpers

Digits == {"1", "2", "9"}

Markers == {" ", "-", "x"}

NoChars == <<>>

\* s[a..b] as a sequence (empty when b < a)
Slice(s, a, b) == [i \in 1..(b - a + 1) |-> s[a + i - 1]]

IsPrefix(p, s) == Len(p) <= Len(s) /\ \A i \in 1..Len(p) : s[i] = p[i]

\* Op applied to the value of e, with e evaluated once
With(e, Op(_)) == CHOOSE r \in {Op(x) : x \in {e}} : TRUE

\* the least j in lo..hi with P(j); P(hi) must hold
First(lo, hi, P(_)) == CHOOSE j \in lo..hi : P(j) /\ \A m \in lo..(j - 1) : ~P(m)

\* increasing sequence of the elements of a finite set of integers
SortedSeq(S) ==
    With(S, LAMBDA T :
        [n \in 1..Cardinality(T) |->
            CHOOSE x \in T : Cardinality({y \in T : y < x}) = n - 1])

\* index of the first element of seq satisfying P (0 when there is none)
FirstIndex(seq, P(_)) ==
    IF \E n \in 1..Len(seq) : P(seq[n])
    THEN First(1, Len(seq), LAMBDA n : P(seq[n]) \/ n = Len(seq))
    ELSE 0

\* --------------------------------------------------- task parser (core/task-parser)

NoTask == [id |-> NoChars, description |-> NoChars, status |-> "none",
           markerPos |-> 0, line |-> 0]

MarkerOf(status) ==
    CASE status = "completed" -> "x"
      [] status = "in-progress" -> "-"
      [] OTHER -> " "

StatusOf(marker) ==
    CASE marker = "x" -> "completed"
      [] marker = "-" -> "in-progress"
      [] OTHER -> "pending"

\* first index of every line of text (lines are separated by "\n")
LineStarts(text) == {i \in 1..Len(text) : i = 1 \/ text[i - 1] = "\n"}

\* index just past the last character of the line starting at i, the line
\* ending ("\n" or "\r\n") excluded
LineEnd(text, i) ==
    With(First(i, Len(text) + 1, LAMBDA j : j = Len(text) + 1 \/ text[j] = "\n"),
         LAMBDA nl : IF nl > i /\ text[nl - 1] = "\r" THEN nl - 1 ELSE nl)

\* text[a..b] is a dotted id: digits separated by single dots
IsDottedId(text, a, b) ==
    /\ a <= b
    /\ text[a] \in Digits /\ text[b] \in Digits
    /\ \A i \in a..b : text[i] \in Digits \cup {"."}
    /\ \A i \in a..(b - 1) : ~(text[i] = "." /\ text[i + 1] = ".")

\* the task on the line text[i..e-1] whose first non-blank character is at k
\* and whose id ends before ie, or NoTask: the line must match
\* <indent>- [<marker>] <id> <description>
TaskAt(text, i, e, k, ie) ==
    IF /\ text[k] = "-" /\ text[k + 1] = " " /\ text[k + 2] = "["
       /\ text[k + 3] \in Markers
       /\ text[k + 4] = "]" /\ text[k + 5] = " "
       /\ IsDottedId(text, k + 6, ie - 1)
       /\ ie < e /\ text[ie] = " "
       /\ ie + 1 < e
    THEN [id |-> Slice(text, k + 6, ie - 1),
          description |-> Slice(text, ie + 1, e - 1),
          status |-> StatusOf(text[k + 3]),
          markerPos |-> k + 3,
          line |-> i]
    ELSE NoTask

\* the task on the line of text starting at i, or NoTask
ParseLine(text, i) ==
    With(LineEnd(text, i), LAMBDA e :
        With(First(i, e, LAMBDA j : j = e \/ text[j] # " "), LAMBDA k :
            IF k + 6 < e
            THEN With(First(k + 6, e, LAMBDA j : j = e \/ text[j] \notin Digits \cup {"."}),
                      LAMBDA ie : TaskAt(text, i, e, k, ie))
            ELSE NoTask))

\* the task lines of text, in document order
ParsedLines(text) ==
    With(text, LAMBDA t :
        With(SortedSeq(LineStarts(t)), LAMBDA starts :
            SelectSeq([n \in 1..Len(starts) |-> ParseLine(t, starts[n])],
                      LAMBDA task : task # NoTask)))

\* a task is a header when another task's id extends its id by a dotted suffix
IsHeaderIn(t, lines) ==
    \E n \in 1..Len(lines) : IsPrefix(t.id \o <<".">>, lines[n].id)

parseTasksFromMarkdown(text) ==
    With(ParsedLines(text), LAMBDA lines :
        [n \in 1..Len(lines) |->
            [id |-> lines[n].id, description |-> lines[n].description,
             status |-> lines[n].status, isHeader |-> IsHeaderIn(lines[n], lines),
             markerPos |-> lines[n].markerPos]])

NoSummary == [total |-> 0, completed |-> 0, inProgress |-> 0, pending |-> 0]

\* number of tasks with the given status that are not headers
CountStatus(tasks, status) ==
    Len(SelectSeq(tasks, LAMBDA t : t.status = status /\ ~t.isHeader))

\* a summary whose total counts every task line
SummaryCountingHeaders(tasks) ==
    [total |-> Len(tasks),
     completed |-> CountStatus(tasks, "completed"),
     inProgress |-> CountStatus(tasks, "in-progress"),
     pending |-> CountStatus(tasks, "pending")]

\* the summary parse derives: counts of the tasks that are not headers
Summary(tasks) ==
    [total |-> Len(SelectSeq(tasks, LAMBDA t : ~t.isHeader)),
     completed |-> CountStatus(tasks, "completed"),
     inProgress |-> CountStatus(tasks, "in-progress"),
     pending |-> CountStatus(tasks, "pending")]

NoParsedTask == [id |-> NoChars, description |-> NoChars, status |-> "none",
                 isHeader |-> FALSE, markerPos |-> 0]

\* index of the first task with the given id (0 when there is none)
IndexOfId(tasks, taskId) == FirstIndex(tasks, LAMBDA t : t.id = taskId)

getTaskById(tasks, taskId) ==
    With(IndexOfId(tasks, taskId), LAMBDA n :
        IF n = 0 THEN NoParsedTask ELSE tasks[n])

findNextPendingTask(tasks) ==
    With(FirstIndex(tasks, LAMBDA t : t.status = "pending" /\ ~t.isHeader), LAMBDA n :
        IF n = 0 THEN NoParsedTask ELSE tasks[n])

\* replaces the marker of the first task line whose id is taskId; the text is
\* returned unchanged when no line has that id
updateTaskStatus(text, taskId, status) ==
    With(ParsedLines(text), LAMBDA lines :
        With(FirstIndex(lines, LAMBDA t : t.id = taskId), LAMBDA n :
            IF n = 0 THEN text
            ELSE [text EXCEPT ![lines[n].markerPos] = MarkerOf(status)]))

\* ------------------------------------------------ manage-tasks tool handler

Actions == {"list", "get", "set-status", "next-pending", "context", "bogus"}

\* task ids a caller passes; NoChars is a missing (falsy) taskId, <<"9">> an
\* id that no document of the model holds
TaskIds == {<<"1">>, <<"1", ".", "1">>, <<"2">>, <<"9">>, NoChars}

\* statuses a caller passes; "" is a missing (falsy) status
Statuses == {"pending", "in-progress", "completed", ""}

\* the argument records of the model: taskId and status are left out (empty)
\* for the actions that never read them
Calls ==
    {[action |-> a, taskId |-> NoChars, status |-> ""] :
        a \in {"list", "next-pending", "bogus"}}
    \cup {[action |-> a, taskId |-> t, status |-> ""] :
        a \in {"get", "context"}, t \in TaskIds}
    \cup {[action |-> "set-status", taskId |-> t, status |-> s] :
        t \in TaskIds, s \in Statuses}

\* a ToolResponse: success, the message (its fixed part), the task the data
\* names, the in-progress ids of data.inProgressTasks, data.summary (of list
\* alone), and what the handler hands to writeFile (write, text)
Response(success, message, task, inProgress, write, text) ==
    [success |-> success, message |-> message, task |-> task,
     inProgress |-> inProgress, summary |-> NoSummary, write |-> write, text |-> text]

Fail(message) == Response(FALSE, message, NoParsedTask, <<>>, FALSE, NoChars)

Ok(message, task) == Response(TRUE, message, task, <<>>, FALSE, NoChars)

NoResponse == Response(FALSE, "none", NoParsedTask, <<>>, FALSE, NoChars)

\* case 'get' (lines 82-113)
GetAction(tasks, taskId) ==
    IF taskId = NoChars THEN Fail("Task ID required for get action")
    ELSE With(getTaskById(tasks, taskId), LAMBDA task :
             IF task = NoParsedTask THEN Fail("Task not found")
             ELSE Ok("Task", task))

\* next-pending that orders the pending tasks by their ids instead of by their
\* place in the document
IdRank(id) ==
    (CASE id[1] = "1" -> 1 [] id[1] = "2" -> 2 [] OTHER -> 9) * 10 + Len(id)

NextPendingActionById(tasks) ==
    With({n \in 1..Len(tasks) : tasks[n].status = "pending" /\ ~tasks[n].isHeader},
         LAMBDA cand :
        IF cand = {} THEN Ok("All tasks are completed!", NoParsedTask)
        ELSE Ok("Next pending task",
                tasks[CHOOSE n \in cand : \A m \in cand :
                          IdRank(tasks[n].id) < IdRank(tasks[m].id)
                          \/ (IdRank(tasks[n].id) = IdRank(tasks[m].id) /\ n <= m)]))

\* next-pending that lists the in-progress headers with the in-progress tasks
NextPendingActionWithHeaders(tasks) ==
    With(findNextPendingTask(tasks), LAMBDA nextTask :
        IF nextTask = NoParsedTask
        THEN With(SelectSeq(tasks, LAMBDA t : t.status = "in-progress"),
                  LAMBDA inProgressTasks :
                 IF Len(inProgressTasks) > 0
                 THEN Response(TRUE, "No pending tasks. task(s) in progress.",
                               NoParsedTask, inProgressTasks, FALSE, NoChars)
                 ELSE Ok("All tasks are completed!", NoParsedTask))
        ELSE Ok("Next pending task", nextTask))

\* case 'next-pending' (lines 115-157)
NextPendingAction(tasks) ==
    With(findNextPendingTask(tasks), LAMBDA nextTask :
        IF nextTask = NoParsedTask
        THEN With(SelectSeq(tasks, LAMBDA t : t.status = "in-progress" /\ ~t.isHeader),
                  LAMBDA inProgressTasks :
                 IF Len(inProgressTasks) > 0
                 THEN Response(TRUE, "No pending tasks. task(s) in progress.",
                               NoParsedTask, inProgressTasks, FALSE, NoChars)
                 ELSE Ok("All tasks are completed!", NoParsedTask))
        ELSE Ok("Next pending task", nextTask))

\* set-status that hands the task's previous status to updateTaskStatus
SetStatusActionStale(tasksContent, tasks, taskId, status) ==
    IF taskId = NoChars THEN Fail("Task ID required for set-status action")
    ELSE IF status = "" THEN Fail("Status required for set-status action")
    ELSE With(getTaskById(tasks, taskId), LAMBDA taskToUpdate :
         With(updateTaskStatus(tasksContent, taskId, taskToUpdate.status), LAMBDA updatedContent :
             IF taskToUpdate = NoParsedTask THEN Fail("Task not found")
             ELSE IF updatedContent = tasksContent
             THEN Fail("Could not find task to update status")
             ELSE Response(TRUE, "Task status updated",
                           [taskToUpdate EXCEPT !.status = status], <<>>,
                           TRUE, updatedContent)))

\* case 'set-status' (lines 159-238)
SetStatusAction(tasksContent, tasks, taskId, status) ==
    IF taskId = NoChars THEN Fail("Task ID required for set-status action")
    ELSE IF status = "" THEN Fail("Status required for set-status action")
    ELSE With(getTaskById(tasks, taskId), LAMBDA taskToUpdate :
         With(updateTaskStatus(tasksContent, taskId, status), LAMBDA updatedContent :
             IF taskToUpdate = NoParsedTask THEN Fail("Task not found")
             ELSE IF updatedContent = tasksContent
             THEN Fail("Could not find task to update status")
             ELSE Response(TRUE, "Task status updated",
                           [taskToUpdate EXCEPT !.status = status], <<>>,
                           TRUE, updatedContent)))

\* case 'context' (lines 240-325)
ContextAction(tasks, taskId) ==
    IF taskId = NoChars THEN Fail("Task ID required for context action")
    ELSE With(getTaskById(tasks, taskId), LAMBDA task :
             IF task = NoParsedTask THEN Fail("Task not found")
             ELSE Ok("Implementation context loaded", task))

\* a handler whose next-pending also marks the task it returns as in progress
manageTasksHandlerClaiming(tasksContent, c) ==
    With(parseTasksFromMarkdown(tasksContent), LAMBDA tasks :
        IF Len(tasks) = 0 THEN Ok("No tasks found in tasks.md", NoParsedTask)
        ELSE CASE c.action = "list" ->
                      [Ok("Found tasks", NoParsedTask) EXCEPT !.summary = Summary(tasks)]
               [] c.action = "get" -> GetAction(tasks, c.taskId)
               [] c.action = "next-pending" ->
                      With(NextPendingAction(tasks), LAMBDA r :
                          IF r.task = NoParsedTask THEN r
                          ELSE [r EXCEPT !.write = TRUE,
                                         !.text = updateTaskStatus(tasksContent, r.task.id,
                                                                   "in-progress")])
               [] c.action = "set-status" ->
                      SetStatusAction(tasksContent, tasks, c.taskId, c.status)
               [] c.action = "context" -> ContextAction(tasks, c.taskId)
               [] OTHER -> Fail("Unknown action"))

\* the handler from the text it read to its response (lines 53-333)
manageTasksHandler(tasksContent, c) ==
    With(parseTasksFromMarkdown(tasksContent), LAMBDA tasks :
        IF Len(tasks) = 0 THEN Ok("No tasks found in tasks.md", NoParsedTask)
        ELSE CASE c.action = "list" ->
                      [Ok("Found tasks", NoParsedTask) EXCEPT !.summary = Summary(tasks)]
               [] c.action = "get" -> GetAction(tasks, c.taskId)
               [] c.action = "next-pending" -> NextPendingAction(tasks)
               [] c.action = "set-status" ->
                      SetStatusAction(tasksContent, tasks, c.taskId, c.status)
               [] c.action = "context" -> ContextAction(tasks, c.taskId)
               [] OTHER -> Fail("Unknown action"))

\* ------------------------------------------- approval records (dashboard/approval-storage)

ApprovalStatuses == {"pending", "approved", "rejected", "needs-revision"}

Terminal == {"approved", "rejected"}

\* the statuses a reviewer responds with
RespondStatuses == {"approved", "rejected", "needs-revision"}

Comment(type, comment, selectedText) ==
    [type |-> type, comment |-> comment, selectedText |-> selectedText]

SelA == Comment("selection", "fix A", "text A")

GenB == Comment("general", "broaden B", "")

SelNoText == Comment("selection", "note C", "")

\* the comment lists a respond call passes
CommentBatches ==
    {<<>>, <<SelA>>, <<GenB>>, <<SelA, GenB>>, <<GenB, SelNoText>>, <<SelNoText, SelA>>}

\* the record create() persists: pending, no response, no comments
NewApproval ==
    [status |-> "pending", response |-> "", responded |-> FALSE, comments |-> <<>>]

\* respond validates the transition against the current state
LegalTransition(from, to) == from \notin Terminal /\ to \in RespondStatuses

\* the record after an accepted respond: the new comments are appended
Responded(rec, status, response, comments) ==
    [status |-> status, response |-> response, responded |-> TRUE,
     comments |-> rec.comments \o comments]

\* -------------------------------------------- get-approval-status tool handler

\* a completed flag that only tells pending from the rest
IsCompletedNotPending(status) == status # "pending"

\* line 106
IsCompleted(status) == status = "approved" \/ status = "rejected"

\* a mapping that keeps only the comments anchored to a text selection
MapCommentsAnchored(comments) ==
    SelectSeq(comments, LAMBDA c : c.selectedText # "")

\* lines 160-167: the comments handed to the caller
MapComments(comments) ==
    [n \in 1..Len(comments) |->
        [type |-> comments[n].type, comment |-> comments[n].comment,
         selectedText |-> comments[n].selectedText]]

NotPolled ==
    [success |-> FALSE, message |-> "none", status |-> "none", isCompleted |-> FALSE,
     hasComments |-> FALSE, comments |-> <<>>, hasRevisionPrompt |-> FALSE]

\* a handler that hands out the comments of every record that has some
getApprovalStatusHandlerAnyStatus(found, rec) ==
    IF ~found
    THEN [NotPolled EXCEPT !.message = "Approval request not found"]
    ELSE [success |-> TRUE, message |-> "Approval status",
          status |-> rec.status, isCompleted |-> IsCompleted(rec.status),
          hasComments |-> Len(rec.comments) > 0,
          comments |-> MapComments(rec.comments),
          hasRevisionPrompt |-> Len(rec.comments) > 0]

\* the handler's response for the record getApproval returned (lines 94-183);
\* found is FALSE when no record has the requested id
getApprovalStatusHandler(found, rec) ==
    IF ~found
    THEN [NotPolled EXCEPT !.message = "Approval request not found"]
    ELSE LET withComments == rec.status = "needs-revision" /\ Len(rec.comments) > 0
         IN  [success |-> TRUE, message |-> "Approval status",
              status |-> rec.status, isCompleted |-> IsCompleted(rec.status),
              hasComments |-> withComments,
              comments |-> IF withComments THEN MapComments(rec.comments) ELSE <<>>,
              hasRevisionPrompt |-> withComments]

NoRespondArgs == [status |-> "none", response |-> "", comments |-> <<>>]

\* no respond call under way
RespondIdle ==
    /\ rpc = [p \in Procs |-> "idle"]
    /\ rargs = [p \in Procs |-> NoRespondArgs]
    /\ rread = [p \in Procs |-> NewApproval]
    /\ rorder = <<>>

ApprovalIdle ==
    /\ approval = NewApproval
    /\ responds = <<>>
    /\ polled = NotPolled
    /\ RespondIdle

\* a reviewer responds to the record
Respond(status, response, comments) ==
    /\ Len(responds) < MaxResponds
    /\ LET ok == LegalTransition(approval.status, status)
       IN  /\ approval' = IF ok THEN Responded(approval, status, response, comments)
                          ELSE approval
           /\ responds' = Append(responds,
                  [from |-> approval.status, to |-> status, comments |-> comments,
                   accepted |-> ok])
    /\ UNCHANGED <<polled, respondVars>>

\* the agent polls the record (or asks for an id that does not exist)
Poll(found) ==
    /\ polled' = getApprovalStatusHandler(found, approval)
    /\ UNCHANGED <<approval, responds, respondVars>>

\* no get-approval-status call is under way
HandlerUnused ==
    /\ hpc = "idle"
    /\ storage = "none"
    /\ hfound = FALSE

\* the catch block (lines 185-190)
HandlerFailed == [NotPolled EXCEPT !.message = "Failed to check approval status"]

\* lines 78-86: the handler is called; hasPath: a project path is given
HandlerCall(hasPath) ==
    /\ hpc = "idle"
    /\ storage' = "none"
    /\ hfound' = FALSE
    /\ IF hasPath
       THEN hpc' = "validate" /\ polled' = NotPolled
       ELSE hpc' = "done"
            /\ polled' = [NotPolled EXCEPT !.message = "Project path is required"]
    /\ UNCHANGED <<approval, responds, respondVars>>

\* line 89: validateProjectPath; throws: it rejects the path
ValidatePath(throws) ==
    /\ hpc = "validate"
    /\ IF throws THEN hpc' = "done" /\ polled' = HandlerFailed
       ELSE hpc' = "start" /\ UNCHANGED polled
    /\ UNCHANGED <<approval, responds, respondVars, storage, hfound>>

\* lines 91-92: the storage is created and started; throws: start() throws
StorageStart(throws) ==
    /\ hpc = "start"
    /\ IF throws THEN hpc' = "done" /\ polled' = HandlerFailed /\ UNCHANGED storage
       ELSE hpc' = "get" /\ storage' = "started" /\ UNCHANGED polled
    /\ UNCHANGED <<approval, responds, respondVars, hfound>>

\* line 94: getApproval; found: a record has the id; throws: it throws
GetApproval(found, throws) ==
    /\ hpc = "get"
    /\ IF throws THEN hpc' = "done" /\ polled' = HandlerFailed /\ UNCHANGED hfound
       ELSE hpc' = "stop" /\ hfound' = found /\ UNCHANGED polled
    /\ UNCHANGED <<approval, responds, respondVars, storage>>

\* lines 97 and 104: the storage is stopped; throws: stop() throws
StorageStop(throws) ==
    /\ hpc = "stop"
    /\ IF throws THEN hpc' = "done" /\ polled' = HandlerFailed /\ UNCHANGED storage
       ELSE hpc' = "respond" /\ storage' = "stopped" /\ UNCHANGED polled
    /\ UNCHANGED <<approval, responds, respondVars, hfound>>

\* lines 98-101 and 106-183: the response is put together and returned
HandlerRespond ==
    /\ hpc = "respond"
    /\ hpc' = "done"
    /\ polled' = getApprovalStatusHandler(hfound, approval)
    /\ UNCHANGED <<approval, responds, respondVars, storage, hfound>>

\* the caller has the response; the tool can be called again
HandlerReturned ==
    /\ hpc = "done"
    /\ hpc' = "idle"
    /\ UNCHANGED <<approval, responds, polled, respondVars, storage, hfound>>

\* respond call p starts: it reads the record of the id from its file
RespondRead(p, status, response, comments) ==
    /\ rpc[p] = "idle"
    /\ rpc' = [rpc EXCEPT ![p] = "read"]
    /\ rargs' = [rargs EXCEPT ![p] = [status |-> status, response |-> response,
                                      comments |-> comments]]
    /\ rread' = [rread EXCEPT ![p] = approval]
    /\ UNCHANGED <<approval, responds, polled, rorder>>

\* a respond that applies its change to the record on disk at the moment of
\* its write
RespondWriteMerging(p) ==
    /\ rpc[p] = "read"
    /\ rpc' = [rpc EXCEPT ![p] = "done"]
    /\ \E ok \in {LegalTransition(approval.status, rargs[p].status)} :
           /\ approval' = IF ok THEN Responded(approval, rargs[p].status,
                                               rargs[p].response, rargs[p].comments)
                          ELSE approval
           /\ rorder' = IF ok THEN Append(rorder, p) ELSE rorder
    /\ UNCHANGED <<responds, polled, rargs, rread>>

\* respond call p validates the transition against the record it read and,
\* when it is legal, writes the whole record: the one it read with its status,
\* its response and its comments appended
RespondWrite(p) ==
    /\ rpc[p] = "read"
    /\ rpc' = [rpc EXCEPT ![p] = "done"]
    /\ \E ok \in {LegalTransition(rread[p].status, rargs[p].status)} :
           /\ approval' = IF ok THEN Responded(rread[p], rargs[p].status,
                                               rargs[p].response, rargs[p].comments)
                          ELSE approval
           /\ rorder' = IF ok THEN Append(rorder, p) ELSE rorder
    /\ UNCHANGED <<responds, polled, rargs, rread>>

\* ------------------------------------------------------------ documents

LF == <<"\n">>

CRLF == <<"\r", "\n">>

TaskLine(indent, marker, id) ==
    [i \in 1..indent |-> " "] \o <<"-", " ", "[", marker, "]", " ">> \o id \o <<" ", "a">>

\* the lines documents are made of: task lines at two indentations, prose,
\* and a checkbox whose marker is not one of the three recognised characters
LineSet ==
    {TaskLine(0, m, <<"1">>) : m \in Markers}
    \cup {TaskLine(2, m, <<"1", ".", "1">>) : m \in Markers}
    \cup {TaskLine(0, m, <<"2">>) : m \in Markers}
    \cup {<<"a", " ", "b">>, TaskLine(0, "a", <<"2">>)}

RECURSIVE Join(_, _)
Join(lines, eol) ==
    IF lines = <<>> THEN <<>> ELSE Head(lines) \o eol \o Join(Tail(lines), eol)

\* every document of at most MaxLines lines, with LF or CRLF line endings
Docs ==
    {Join(ls, eol) :
        ls \in UNION {[1..n -> LineSet] : n \in 0..MaxLines}, eol \in {LF, CRLF}}

\* the document of the worked example: a parent line and two children
ScenarioDoc ==
    Join(<<TaskLine(0, " ", <<"1">>), TaskLine(2, " ", <<"1", ".", "1">>),
           TaskLine(2, "x", <<"1", ".", "2">>)>>, LF)

\* ------------------------------------------------ GitignoreManager (core/gitignore-manager)
\* In ignore-file text the project names are single characters: "W" stands for
\* ".spec-workflow", "C" for "Spec workflow files", "x" for any other name.

\* line 43
TARGET_PATTERN == <<"*", "*", "/", "W", "/">>

\* lines 35-41
PATTERNS ==
    {<<"*", "*", "/", "W", "/">>, <<"W", "/">>, <<"W">>, <<"/", "W", "/">>,
     <<"*", "*", "/", "W">>}

\* line 44
PATTERN_COMMENT == <<"#", " ", "C">>

\* line 220: maxRetries
MaxRetries == 3

\* line 237: base delay in ms
BaseDelay == 100

IsSpace(c) == c \in {" ", "\r", "\n"}

\* String.prototype.trim
Trim(s) ==
    IF \A i \in 1..Len(s) : IsSpace(s[i]) THEN <<>>
    ELSE With(First(1, Len(s), LAMBDA i : ~IsSpace(s[i])), LAMBDA a :
         With(First(1, Len(s), LAMBDA j : ~IsSpace(s[Len(s) + 1 - j])), LAMBDA b :
             Slice(s, a, Len(s) + 1 - b)))

DropPrefix(s, p) == IF IsPrefix(p, s) THEN Slice(s, Len(p) + 1, Len(s)) ELSE s

DropLastSlash(s) ==
    IF Len(s) > 0 /\ s[Len(s)] = "/" THEN Slice(s, 1, Len(s) - 1) ELSE s

\* lines 179-187
normalizePattern(pattern) ==
    With(DropPrefix(pattern, <<"*", "*", "/">>), LAMBDA s1 :
    With(DropPrefix(s1, <<"/">>), LAMBDA s2 :
    With(DropLastSlash(s2), LAMBDA s3 :
    With(DropPrefix(s3, <<"*", "*">>), LAMBDA s4 : Trim(s4)))))

\* content.split(/\r?\n/): the lines of content, as a sequence
SplitLines(fileContent) ==
    With(fileContent, LAMBDA t :
    With(SortedSeq({i \in 1..(Len(t) + 1) : i = 1 \/ t[i - 1] = "\n"}), LAMBDA starts :
        [n \in 1..Len(starts) |->
            With(First(starts[n], Len(t) + 1, LAMBDA j : j = Len(t) + 1 \/ t[j] = "\n"),
                 LAMBDA nl :
                Slice(t, starts[n],
                      IF nl > starts[n] /\ t[nl - 1] = "\r" THEN nl - 2 ELSE nl - 1))]))

\* a line that holds only the target pattern itself, compared untrimmed
LineIsTarget(line) == line = TARGET_PATTERN

\* lines 167-176: the test isPatternPresent applies to one line
LineMatches(line) ==
    With(Trim(line), LAMBDA trimmed :
        IF Len(trimmed) > 0 /\ trimmed[1] = "#" THEN FALSE
        ELSE \/ trimmed \in PATTERNS
             \/ normalizePattern(trimmed) = normalizePattern(TARGET_PATTERN))

\* an isPatternPresent that knows the target pattern only
isPatternPresentExact(fileContent) ==
    With(SplitLines(fileContent), LAMBDA lines :
        \E n \in 1..Len(lines) : LineIsTarget(lines[n]))

\* lines 165-177
isPatternPresent(fileContent) ==
    With(SplitLines(fileContent), LAMBDA lines :
        \E n \in 1..Len(lines) : LineMatches(lines[n]))

EndsWith(s, suffix) ==
    /\ Len(suffix) <= Len(s)
    /\ \A i \in 1..Len(suffix) : s[Len(s) - Len(suffix) + i] = suffix[i]

\* lines 195-210: the content appendPattern writes
appendPattern(existingContent, pattern) ==
    With(IF Len(existingContent) > 0 /\ ~EndsWith(existingContent, <<"\n">>)
         THEN existingContent \o <<"\n">> ELSE existingContent, LAMBDA c1 :
    With(IF Len(c1) > 0 /\ ~EndsWith(c1, <<"\n", "\n">>)
         THEN c1 \o <<"\n">> ELSE c1, LAMBDA c2 :
        c2 \o PATTERN_COMMENT \o <<"\n">> \o pattern \o <<"\n">>))

\* line 216: the content createGitignore writes
createGitignore(pattern) == PATTERN_COMMENT \o <<"\n">> \o pattern \o <<"\n">>

WriteOutcomes == {"ok", "EIO", "EACCES", "EPERM"}

PermissionErrors == {"EACCES", "EPERM"}

\* a retry step that takes only EACCES for a permission error
RetryStepEaccesOnly(n, outcome) ==
    IF outcome = "ok" THEN [next |-> "return", delay |-> 0]
    ELSE IF outcome = "EACCES" THEN [next |-> "throw", delay |-> 0]
    ELSE IF n < MaxRetries
    THEN [next |-> "wait", delay |-> BaseDelay * 2 ^ (n - 1)]
    ELSE [next |-> "throw", delay |-> 0]

\* a retry step that also waits after the last attempt
RetryStepWaitsLast(n, outcome) ==
    IF outcome = "ok" THEN [next |-> "return", delay |-> 0]
    ELSE IF outcome = "EACCES" \/ outcome = "EPERM" THEN [next |-> "throw", delay |-> 0]
    ELSE [next |-> "wait", delay |-> BaseDelay * 2 ^ (n - 1)]

\* lines 223-242: what writeFileWithRetry does after attempt n ended with outcome
RetryStep(n, outcome) ==
    IF outcome = "ok" THEN [next |-> "return", delay |-> 0]
    ELSE IF outcome = "EACCES" \/ outcome = "EPERM" THEN [next |-> "throw", delay |-> 0]
    ELSE IF n < MaxRetries
    THEN [next |-> "wait", delay |-> BaseDelay * 2 ^ (n - 1)]
    ELSE [next |-> "throw", delay |-> 0]

\* the settings a caller passes (silent only drops the message and is left at
\* its default); "x/" is a pattern other than the workflow directory
Configs ==
    [pattern : {TARGET_PATTERN, <<"x", "/">>}, createIfMissing : BOOLEAN, force : BOOLEAN]

\* lines 47-53
DefaultConfig == [pattern |-> TARGET_PATTERN, createIfMissing |-> TRUE, force |-> FALSE]

\* a GitignoreResult: error names the file-system call that threw
GitResult(success, action, error) ==
    [success |-> success, action |-> action, error |-> error]

NoGitResult == GitResult(FALSE, "none", "none")

Absent == [exists |-> FALSE, text |-> NoChars]

Present(text) == [exists |-> TRUE, text |-> text]

\* the lines an ignore-file of the model is made of
GitLineSet ==
    PATTERNS \cup
    {<<"x">>, <<"#", " ", "W", "/">>, <<>>, <<" ", "W", "/", " ", "\r">>, <<"W", "/", "x">>}

\* every ignore-file of at most MaxGitLines lines, with and without a final newline
GitDocs ==
    {Join(ls, LF) : ls \in UNION {[1..n -> GitLineSet] : n \in 0..MaxGitLines}}
    \cup {Join(ls, LF) \o <<"x">> : ls \in UNION {[1..n -> GitLineSet] : n \in 0..(MaxGitLines - 1)}}

\* an ignore-file that ends with several blank lines
BlankTailDoc == <<"x", "\n", "\n", "\n">>

GitIdle ==
    /\ gpc = [p \in Procs |-> "idle"]
    /\ toWrite = [p \in Procs |-> NoChars]
    /\ kind = [p \in Procs |-> "none"]
    /\ attempt = [p \in Procs |-> 0]
    /\ writes = [p \in Procs |-> <<>>]
    /\ waits = [p \in Procs |-> <<>>]
    /\ gresult = [p \in Procs |-> NoGitResult]
    /\ before = [p \in Procs |-> Absent]
    /\ prev = [p \in Procs |-> "none"]
    /\ calls = [p \in Procs |-> 0]

\* the part of the model that stands still while the task and approval
\* handlers run
GitUnused ==
    /\ gitignore = Absent
    /\ repo = FALSE
    /\ cfg = [p \in Procs |-> DefaultConfig]
    /\ GitIdle

\* no bootstrap has been invoked in the process
MemoUnused ==
    /\ ensured = {}
    /\ invocations = [r \in Roots |-> 0]
    /\ runs = [r \in Roots |-> 0]

\* no revision prompt is being derived
PromptUnused ==
    /\ pcomments = <<>>
    /\ pfeedback = ""
    /\ prompt = <<>>

\* line 810: default of options.minLength
MinLength == 1

\* the empty inactive state (useState initial value, lines 816-821)
EmptyState == [selectedText |-> NoChars, isActive |-> FALSE]

\* rangeCount = 0: nothing is selected
NoSelection == [text |-> NoChars, place |-> "none"]

\* no component uses the hook
HookUnused ==
    /\ alive = FALSE
    /\ isMounted = FALSE
    /\ containerProp = "document"
    /\ containerRef = "document"
    /\ registered = {}
    /\ debounceTimeout = -1
    /\ delayTimeout = -1
    /\ selection = NoSelection
    /\ selectionState = EmptyState
    /\ source = "none"
    /\ elapsed = -1
    /\ published = 0
    /\ lateUpdate = FALSE
    /\ signalOk = TRUE
    /\ removeThrows = FALSE
    /\ minLength = MinLength
    /\ rangeError = FALSE
    /\ warned = FALSE
    /\ liveDebounce = 0
    /\ liveDelay = 0
    /\ lastCleared = "none"

\* the call returns r (lines 59-63, 75-79, 84-89, 94-99, 102-106, 109-114)
Returns(p, r) ==
    /\ gresult' = [gresult EXCEPT ![p] = r]
    /\ gpc' = [gpc EXCEPT ![p] = "done"]

\* the call goes on to writeFileWithRetry with content c (lines 212, 217)
StartsWriting(p, c, k) ==
    /\ toWrite' = [toWrite EXCEPT ![p] = c]
    /\ kind' = [kind EXCEPT ![p] = k]
    /\ attempt' = [attempt EXCEPT ![p] = 1]
    /\ gpc' = [gpc EXCEPT ![p] = "write"]

\* ensure is called (line 46)
EnsureStart(p) ==
    /\ gpc[p] = "idle"
    /\ calls[p] < MaxCalls
    /\ calls' = [calls EXCEPT ![p] = @ + 1]
    /\ before' = [before EXCEPT ![p] = gitignore]
    /\ gpc' = [gpc EXCEPT ![p] = "find"]
    /\ UNCHANGED <<gitignore, repo, cfg, toWrite, kind, attempt, writes, waits, gresult, prev>>

\* a findRepository step that takes a missing repository for an error
FindRepositoryNoRepoFails(p, threw) ==
    /\ gpc[p] = "find"
    /\ IF threw \/ ~repo THEN Returns(p, GitResult(FALSE, "failed", "stat"))
       ELSE gpc' = [gpc EXCEPT ![p] = "access"] /\ UNCHANGED gresult
    /\ UNCHANGED <<gitignore, repo, cfg, toWrite, kind, attempt, writes, waits, before, prev, calls>>

\* no removePattern call has been made
RemovalUnused == removal = [called |-> FALSE, removed |-> FALSE]

\* lines 319-345: the lines removePattern keeps, from line i on, and whether
\* it dropped any
RECURSIVE FilterLines(_, _)
FilterLines(ls, i) ==
    IF i > Len(ls) THEN [kept |-> <<>>, removed |-> FALSE]
    ELSE IF /\ Trim(ls[i]) = PATTERN_COMMENT
            /\ i + 1 <= Len(ls)
            /\ Trim(ls[i + 1]) \in PATTERNS
    THEN [FilterLines(ls, i + 2) EXCEPT !.removed = TRUE]
    ELSE IF ~IsPrefix(<<"#">>, Trim(ls[i])) /\ Trim(ls[i]) \in PATTERNS
    THEN [FilterLines(ls, i + 1) EXCEPT !.removed = TRUE]
    ELSE [FilterLines(ls, i + 1) EXCEPT !.kept = <<ls[i]>> \o @]

\* line 349: replace(/\n{3,}/g, '\n\n')
CollapseBlankLines(s) ==
    With(SortedSeq({i \in 1..Len(s) :
             ~(s[i] = "\n" /\ i >= 3 /\ s[i - 1] = "\n" /\ s[i - 2] = "\n")}),
         LAMBDA keep : [n \in 1..Len(keep) |-> s[keep[n]]])

\* removePattern up to its write (lines 304-350, 357-370); threw: readFile threw
RemovePattern(p, threw) ==
    /\ gpc[p] = "idle"
    /\ calls[p] = 0
    /\ ~removal.called
    /\ before' = [before EXCEPT ![p] = gitignore]
    /\ IF ~gitignore.exists
       THEN /\ Returns(p, GitResult(TRUE, "skipped", "none"))
            /\ removal' = [called |-> TRUE, removed |-> FALSE]
            /\ UNCHANGED <<toWrite, kind, attempt>>
       ELSE IF threw
       THEN /\ Returns(p, GitResult(FALSE, "failed", "read"))
            /\ removal' = [called |-> TRUE, removed |-> FALSE]
            /\ UNCHANGED <<toWrite, kind, attempt>>
       ELSE \E r \in {FilterLines(SplitLines(gitignore.text), 1)} :
            /\ removal' = [called |-> TRUE, removed |-> r.removed]
            /\ IF r.removed
               THEN StartsWriting(p, CollapseBlankLines(Join(r.kept, LF)), "updated")
                    /\ UNCHANGED gresult
               ELSE Returns(p, GitResult(TRUE, "skipped", "none"))
                    /\ UNCHANGED <<toWrite, kind, attempt>>
    /\ UNCHANGED <<gitignore, repo, cfg, writes, waits, prev, calls>>

\* findRepository (lines 57-64, 118-140); threw: stat of the .git entry threw
FindRepository(p, threw) ==
    /\ gpc[p] = "find"
    /\ IF threw /\ repo THEN Returns(p, GitResult(FALSE, "failed", "stat"))
       ELSE IF ~repo THEN Returns(p, GitResult(TRUE, "skipped", "none"))
       ELSE gpc' = [gpc EXCEPT ![p] = "access"] /\ UNCHANGED gresult
    /\ UNCHANGED <<gitignore, repo, cfg, toWrite, kind, attempt, writes, waits, before, prev, calls>>

\* fileExists and the branch on it (lines 68-70, 91-107)
FileExists(p) ==
    /\ gpc[p] = "access"
    /\ IF gitignore.exists
       THEN gpc' = [gpc EXCEPT ![p] = "readfile"]
            /\ UNCHANGED <<toWrite, kind, attempt, gresult>>
       ELSE IF cfg[p].createIfMissing
       THEN StartsWriting(p, createGitignore(cfg[p].pattern), "created")
            /\ UNCHANGED gresult
       ELSE Returns(p, GitResult(TRUE, "skipped", "none"))
            /\ UNCHANGED <<toWrite, kind, attempt>>
    /\ UNCHANGED <<gitignore, repo, cfg, writes, waits, before, prev, calls>>

\* a readFile step whose error escapes the try block of ensure
ReadFileUncaught(p, threw) ==
    /\ gpc[p] = "readfile"
    /\ IF threw \/ ~gitignore.exists
       THEN gpc' = [gpc EXCEPT ![p] = "thrown"]
            /\ UNCHANGED <<toWrite, kind, attempt, gresult>>
       ELSE IF ~cfg[p].force /\ isPatternPresent(gitignore.text)
       THEN Returns(p, GitResult(TRUE, "skipped", "none"))
            /\ UNCHANGED <<toWrite, kind, attempt>>
       ELSE StartsWriting(p, appendPattern(gitignore.text, cfg[p].pattern), "updated")
            /\ UNCHANGED gresult
    /\ UNCHANGED <<gitignore, repo, cfg, writes, waits, before, prev, calls>>

\* readFile and the presence check (lines 72-83); threw: readFile threw
ReadFile(p, threw) ==
    /\ gpc[p] = "readfile"
    /\ IF threw \/ ~gitignore.exists
       THEN Returns(p, GitResult(FALSE, "failed", "read"))
            /\ UNCHANGED <<toWrite, kind, attempt>>
       ELSE IF ~cfg[p].force /\ isPatternPresent(gitignore.text)
       THEN Returns(p, GitResult(TRUE, "skipped", "none"))
            /\ UNCHANGED <<toWrite, kind, attempt>>
       ELSE StartsWriting(p, appendPattern(gitignore.text, cfg[p].pattern), "updated")
            /\ UNCHANGED gresult
    /\ UNCHANGED <<gitignore, repo, cfg, writes, waits, before, prev, calls>>

\* writeFile (line 225) opens the file for writing, which creates or empties
\* it; the content is written in a later step, so the file can be read empty
\* in between
WriteOpen(p) ==
    /\ gpc[p] = "write"
    /\ gitignore' = Present(NoChars)
    /\ gpc' = [gpc EXCEPT ![p] = "writing"]
    /\ UNCHANGED <<repo, cfg, toWrite, kind, attempt, writes, waits, gresult, before, prev, calls>>

\* the end of one writeFile attempt of writeFileWithRetry (lines 223-242) and,
\* when the loop ends, the return of ensure (lines 84-99) or its catch (lines
\* 108-115); the attempt fails at the open, the file untouched, or, not for
\* want of permission, after it
WriteAttempt(p, outcome) ==
    /\ \/ gpc[p] = "write" /\ outcome # "ok"
       \/ gpc[p] = "writing" /\ outcome \notin PermissionErrors
    /\ writes' = [writes EXCEPT ![p] = Append(@, outcome)]
    /\ gitignore' = IF outcome = "ok" THEN Present(toWrite[p]) ELSE gitignore
    /\ \E step \in {RetryStep(attempt[p], outcome)} :
           CASE step.next = "return" ->
                    Returns(p, GitResult(TRUE, kind[p], "none")) /\ UNCHANGED waits
             [] step.next = "throw" ->
                    Returns(p, GitResult(FALSE, "failed", outcome)) /\ UNCHANGED waits
             [] OTHER ->
                    /\ waits' = [waits EXCEPT ![p] = Append(@, step.delay)]
                    /\ gpc' = [gpc EXCEPT ![p] = "wait"]
                    /\ UNCHANGED gresult
    /\ UNCHANGED <<repo, cfg, toWrite, kind, attempt, before, prev, calls>>

\* the backoff timer fires and the loop goes to its next attempt (lines 223, 237)
BackoffElapsed(p) ==
    /\ gpc[p] = "wait"
    /\ attempt' = [attempt EXCEPT ![p] = @ + 1]
    /\ gpc' = [gpc EXCEPT ![p] = "write"]
    /\ UNCHANGED <<gitignore, repo, cfg, toWrite, kind, writes, waits, gresult, before, prev, calls>>

\* the caller takes the result; it can call ensure again
EnsureReturn(p) ==
    /\ gpc[p] = "done"
    /\ prev' = [prev EXCEPT ![p] = gresult[p].action]
    /\ gpc' = [gpc EXCEPT ![p] = "idle"]
    /\ gresult' = [gresult EXCEPT ![p] = NoGitResult]
    /\ toWrite' = [toWrite EXCEPT ![p] = NoChars]
    /\ kind' = [kind EXCEPT ![p] = "none"]
    /\ attempt' = [attempt EXCEPT ![p] = 0]
    /\ writes' = [writes EXCEPT ![p] = <<>>]
    /\ waits' = [waits EXCEPT ![p] = <<>>]
    /\ before' = [before EXCEPT ![p] = Absent]
    /\ UNCHANGED <<gitignore, repo, cfg, calls>>

\* ------------------------------------------------ the memoizing bootstrap caller
\* The caller of gitignoreManager.ensure keeps a process-wide set of the roots
\* it has ensured; it is described in the specification (section 4.2,
\* "Process-wide memoization").

\* a bootstrap that calls ensure on every invocation
BootstrapUnmemoized(r) ==
    /\ gpc[1] = "idle"
    /\ invocations[r] < MaxCalls
    /\ invocations' = [invocations EXCEPT ![r] = @ + 1]
    /\ runs' = [runs EXCEPT ![r] = @ + 1]
    /\ UNCHANGED ensured
    /\ EnsureStart(1)

\* one invocation of the ignore-file step for root r: a root in the set is
\* skipped without touching the file system, another is added to the set and
\* ensure is called for it
Bootstrap(r) ==
    /\ gpc[1] = "idle"
    /\ invocations[r] < MaxCalls
    /\ invocations' = [invocations EXCEPT ![r] = @ + 1]
    /\ IF r \in ensured
       THEN UNCHANGED <<ensured, runs, gitVars>>
       ELSE /\ ensured' = ensured \cup {r}
            /\ runs' = [runs EXCEPT ![r] = @ + 1]
            /\ EnsureStart(1)

\* ---------------------------------------- generateRevisionPrompt (tools/get-approval-status)
\* The prompt is modelled by its sections, in the order in which they are
\* pushed; the code joins them with blank lines.

SelD == Comment("selection", "fix D", "text D")

GenE == Comment("general", "explain E", "")

\* the comments a reviewer's list is made of
PromptComments == {SelA, SelD, SelNoText, GenB, GenE}

\* lines 15-17
FeedbackSection(generalFeedback) == [kind |-> "General Feedback", n |-> 0,
                                     quoted |-> "", text |-> generalFeedback]

\* line 25
RevisionsHeading == [kind |-> "Specific Text Revisions Required", n |-> 0,
                     quoted |-> "", text |-> ""]

\* lines 27-31
ChangeSection(n, c) == [kind |-> "Change", n |-> n,
                        quoted |-> c.selectedText, text |-> c.comment]

\* line 37
CommentsHeading == [kind |-> "General Comments", n |-> 0, quoted |-> "", text |-> ""]

\* line 39
CommentItem(n, c) == [kind |-> "Comment", n |-> n, quoted |-> "", text |-> c.comment]

\* lines 44-50
RevisionInstructions == [kind |-> "Revision Instructions", n |-> 0,
                         quoted |-> "", text |-> ""]

\* line 20: the comments that get a Change entry
SelectionComments(comments) ==
    SelectSeq(comments, LAMBDA c : c.type = "selection" /\ c.selectedText # "")

\* line 21
GeneralComments(comments) == SelectSeq(comments, LAMBDA c : c.type = "general")

\* lines 11-53
generateRevisionPrompt(comments, generalFeedback) ==
    With(SelectionComments(comments), LAMBDA sel :
    With(GeneralComments(comments), LAMBDA gen :
        (IF generalFeedback # "" THEN <<FeedbackSection(generalFeedback)>> ELSE <<>>)
        \o (IF Len(sel) > 0
            THEN <<RevisionsHeading>> \o [n \in 1..Len(sel) |-> ChangeSection(n, sel[n])]
            ELSE <<>>)
        \o (IF Len(gen) > 0
            THEN <<CommentsHeading>> \o [n \in 1..Len(gen) |-> CommentItem(n, gen[n])]
            ELSE <<>>)
        \o <<RevisionInstructions>>))

\* the function is called on a comment list and a feedback
GeneratePrompt ==
    /\ prompt = <<>>
    /\ prompt' = generateRevisionPrompt(pcomments, pfeedback)
    /\ UNCHANGED <<pcomments, pfeedback>>

\* the caller drops the prompt; the function can be called again
DropPrompt ==
    /\ prompt # <<>>
    /\ prompt' = <<>>
    /\ UNCHANGED <<pcomments, pfeedback>>


\* ------------------------------------------------ useTextSelection (dashboard_frontend hooks)
\* Time is counted in steps of TickMs. A timer holds the ms left until it
\* fires; a timer that has reached 0 fires before time goes on, unless an
\* event handled at that instant clears it first.

\* line 809: default of options.debounceMs
DebounceMs == 100

\* line 973
MouseDelayMs == 10

\* line 1004
TouchDelayMs == 50

\* the step of time: the smallest delay; the other delays are multiples of it
TickMs == MouseDelayMs

\* document, and two containers that do not overlap
Elements == {"document", "A", "B"}

\* where an event target or a selection can lie
Places == {"inA", "inB", "outside"}

\* Node.contains (lines 956, 987)
Contains(element, place) ==
    \/ element = "document"
    \/ element = "A" /\ place = "inA"
    \/ element = "B" /\ place = "inB"

\* what the user can have selected: text somewhere in the page, or nothing
Selections ==
    {NoSelection} \cup
    [text : {<<" ">>, <<"a">>, <<" ", "a", "b", " ">>}, place : Places]

\* the values of options.minLength: the default and a longer one
MinLengths == {MinLength, MinLength + 1}

\* a processing that measures and publishes the selection as it stands
ProcessSelectionUntrimmed(sel) ==
    IF sel.place = "none" THEN EmptyState
    ELSE IF Len(sel.text) < minLength THEN EmptyState
    ELSE [selectedText |-> sel.text, isActive |-> TRUE]

\* lines 893-917, 933-937: the state the debounced callback derives from a
\* selection whose range can be read
ProcessSelection(sel) ==
    IF sel.place = "none" THEN EmptyState
    ELSE With(Trim(sel.text), LAMBDA selectedText :
             IF Len(selectedText) < minLength THEN EmptyState
             ELSE [selectedText |-> selectedText, isActive |-> TRUE])

\* lines 1095-1098: the listeners the effect registers for container c
ListenersFor(c) ==
    {<<"document", "selectionchange">>, <<c, "mouseup">>, <<c, "touchend">>}

\* an event of the given type at the given place reaches a handler of the
\* hook: through a registered listener or, once the component is unmounted,
\* through a reference to the handler that outlived it
Reaches(type, place) ==
    \/ ~alive
    \/ \E l \in registered : l[2] = type /\ Contains(l[1], place)

\* the first render and its effects (lines 816-838, 1068-1101)
HookMounted(c) ==
    /\ alive = TRUE
    /\ isMounted = TRUE
    /\ containerProp = c
    /\ containerRef = c
    /\ registered = ListenersFor(c)
    /\ debounceTimeout = -1
    /\ delayTimeout = -1
    /\ selection = NoSelection
    /\ selectionState = EmptyState
    /\ source = "none"
    /\ elapsed = -1
    /\ published = 0
    /\ rangeError = FALSE
    /\ warned = FALSE
    /\ liveDebounce = 0
    /\ liveDelay = 0
    /\ lastCleared = "none"
    /\ lateUpdate = FALSE

\* clearTimeout of a timer reference: the number n of pending timers after it
\* (lines 876-879, 962-965, 993-996, 1040-1048)
ClearedTimeout(ref, n) == IF ref >= 0 THEN n - 1 ELSE n

\* a handleSelectionChange that lets a pending debounce timer run on
RunHandleSelectionChangeNoReset ==
    /\ debounceTimeout' = IF ~isMounted THEN -1
                          ELSE IF debounceTimeout >= 0 THEN debounceTimeout
                          ELSE DebounceMs
    /\ elapsed' = IF isMounted THEN 0 ELSE elapsed
    /\ published' = IF isMounted THEN 0 ELSE published
    /\ rangeError' = IF isMounted THEN FALSE ELSE rangeError
    /\ warned' = IF isMounted THEN FALSE ELSE warned
    /\ liveDebounce' = IF ~isMounted THEN ClearedTimeout(debounceTimeout, liveDebounce)
                       ELSE IF debounceTimeout >= 0 THEN liveDebounce
                       ELSE liveDebounce + 1
    /\ lastCleared' = "none"

\* handleSelectionChange (lines 874-943) up to the scheduling of the timer
RunHandleSelectionChange ==
    /\ debounceTimeout' = IF isMounted THEN DebounceMs ELSE -1
    /\ elapsed' = IF isMounted THEN 0 ELSE elapsed
    /\ published' = IF isMounted THEN 0 ELSE published
    /\ rangeError' = IF isMounted THEN FALSE ELSE rangeError
    /\ warned' = IF isMounted THEN FALSE ELSE warned
    /\ liveDebounce' = ClearedTimeout(debounceTimeout, liveDebounce)
                       + (IF isMounted THEN 1 ELSE 0)
    /\ lastCleared' = IF isMounted /\ debounceTimeout >= 0 THEN "debounce" ELSE "none"

\* the user changes the selection and the document fires selectionchange
SelectionChange(sel) ==
    /\ selection' = sel
    /\ IF Reaches("selectionchange", "outside")
       THEN RunHandleSelectionChange
       ELSE /\ UNCHANGED <<debounceTimeout, elapsed, published, rangeError, warned,
                         liveDebounce>>
            /\ lastCleared' = "none"
    /\ UNCHANGED <<alive, isMounted, containerProp, containerRef, registered,
                   delayTimeout, selectionState, source, lateUpdate, signalOk, removeThrows, minLength, liveDelay>>

\* a handler that schedules its delay timer without cancelling the pending one
PointerUpKeepsTimer(type, place, delayMs) ==
    /\ Reaches(type, place)
    /\ delayTimeout' =
           IF ~isMounted THEN delayTimeout
           ELSE IF containerRef # "document" /\ ~Contains(containerRef, place)
           THEN delayTimeout
           ELSE delayMs
    /\ \E schedules \in {isMounted /\ (containerRef = "document"
                                        \/ Contains(containerRef, place))} :
           /\ liveDelay' = IF schedules
                           THEN liveDelay + 1
                           ELSE liveDelay
           /\ lastCleared' = IF schedules /\ delayTimeout >= 0 THEN "delay" ELSE "none"
    /\ UNCHANGED <<alive, isMounted, containerProp, containerRef, registered,
                   debounceTimeout, selection, selectionState, source, elapsed,
                   published, rangeError, warned, lateUpdate, signalOk, removeThrows, minLength, liveDebounce>>

\* handleMouseUp and handleTouchEnd (lines 948-974, 979-1005), for an event
\* whose target lies at place; they differ in the delay
PointerUp(type, place, delayMs) ==
    /\ Reaches(type, place)
    /\ delayTimeout' =
           IF ~isMounted THEN delayTimeout
           ELSE IF containerRef # "document" /\ ~Contains(containerRef, place)
           THEN delayTimeout
           ELSE delayMs
    /\ \E schedules \in {isMounted /\ (containerRef = "document"
                                        \/ Contains(containerRef, place))} :
           /\ liveDelay' = IF schedules
                           THEN ClearedTimeout(delayTimeout, liveDelay) + 1
                           ELSE liveDelay
           /\ lastCleared' = IF schedules /\ delayTimeout >= 0 THEN "delay" ELSE "none"
    /\ UNCHANGED <<alive, isMounted, containerProp, containerRef, registered,
                   debounceTimeout, selection, selectionState, source, elapsed,
                   published, rangeError, warned, lateUpdate, signalOk, removeThrows, minLength, liveDebounce>>

MouseUp(place) == PointerUp("mouseup", place, MouseDelayMs)

TouchEnd(place) == PointerUp("touchend", place, TouchDelayMs)

\* time passes while a timer is pending and none is due
Tick ==
    /\ debounceTimeout > 0 \/ delayTimeout > 0
    /\ debounceTimeout # 0 /\ delayTimeout # 0
    /\ debounceTimeout' = IF debounceTimeout > 0 THEN debounceTimeout - TickMs ELSE -1
    /\ delayTimeout' = IF delayTimeout > 0 THEN delayTimeout - TickMs ELSE -1
    /\ elapsed' = IF elapsed >= 0 /\ elapsed < DebounceMs THEN elapsed + TickMs ELSE elapsed
    /\ UNCHANGED <<alive, isMounted, containerProp, containerRef, registered,
                   selection, selectionState, source, published, rangeError, warned, lateUpdate,
                   signalOk, removeThrows, minLength, liveDebounce, liveDelay>>
    /\ lastCleared' = "none"

\* the delay timer fires (lines 969-973, 1000-1004)
FireDelay ==
    /\ delayTimeout = 0
    /\ delayTimeout' = -1
    /\ IF isMounted
       THEN RunHandleSelectionChange
       ELSE /\ UNCHANGED <<debounceTimeout, elapsed, published, rangeError, warned,
                         liveDebounce>>
            /\ lastCleared' = "none"
    /\ UNCHANGED <<alive, isMounted, containerProp, containerRef, registered,
                   selection, selectionState, source, lateUpdate, signalOk, removeThrows, minLength>>
    /\ liveDelay' = liveDelay - 1

\* safeSetState (lines 843-847)
SafeSetState(newState, place) ==
    IF isMounted
    THEN /\ selectionState' = newState
         /\ source' = IF newState.isActive THEN place ELSE "none"
         /\ lateUpdate' = (lateUpdate \/ ~alive)
    ELSE UNCHANGED <<selectionState, source, lateUpdate>>

\* a timer callback that leaves the state as it is when the range cannot be read
FireDebounceKeepsState(throws) ==
    /\ debounceTimeout = 0
    /\ debounceTimeout' = -1
    /\ IF isMounted
       THEN /\ \E failed \in {throws /\ ProcessSelection(selection).isActive} :
                   /\ IF failed
                      THEN UNCHANGED <<selectionState, source, lateUpdate>>
                      ELSE SafeSetState(ProcessSelection(selection), selection.place)
                   /\ rangeError' = failed
                   /\ warned' = failed
            /\ published' = published + 1
       ELSE UNCHANGED <<selectionState, source, lateUpdate, published, rangeError, warned>>
    /\ UNCHANGED <<alive, isMounted, containerProp, containerRef, registered,
                   delayTimeout, selection, elapsed, signalOk, removeThrows, minLength, liveDelay>>
    /\ liveDebounce' = liveDebounce - 1
    /\ lastCleared' = "none"

\* the debounce timer fires (lines 886-942); throws: getRangeAt, the position
\* computation or cloneRange throws (lines 919-930), which can happen only
\* for a selection that passed the length test
FireDebounce(throws) ==
    /\ debounceTimeout = 0
    /\ debounceTimeout' = -1
    /\ IF isMounted
       THEN /\ \E failed \in {throws /\ ProcessSelection(selection).isActive} :
                   /\ SafeSetState(IF failed THEN EmptyState
                                   ELSE ProcessSelection(selection), selection.place)
                   /\ rangeError' = failed
                   /\ warned' = (failed /\ isMounted)
            /\ published' = published + 1
       ELSE UNCHANGED <<selectionState, source, lateUpdate, published, rangeError, warned>>
    /\ UNCHANGED <<alive, isMounted, containerProp, containerRef, registered,
                   delayTimeout, selection, elapsed, signalOk, removeThrows, minLength, liveDelay>>
    /\ liveDebounce' = liveDebounce - 1
    /\ lastCleared' = "none"

\* clearSelection (lines 1010-1026)
ClearSelection ==
    /\ selectionState # EmptyState \/ selection # NoSelection
    /\ IF isMounted
       THEN selection' = NoSelection /\ SafeSetState(EmptyState, "none")
       ELSE UNCHANGED <<selection, selectionState, source, lateUpdate>>
    /\ UNCHANGED <<alive, isMounted, containerProp, containerRef, registered,
                   debounceTimeout, delayTimeout, elapsed, published, rangeError, warned, signalOk, removeThrows, minLength, liveDebounce, liveDelay>>
    /\ lastCleared' = "none"

\* the component is rendered again with another container: the effect of
\* lines 836-838 runs; the listener effect (lines 1068-1120) does not, since
\* none of its dependencies has changed
Rerender(c) ==
    /\ alive
    /\ c # containerProp
    /\ containerProp' = c
    /\ containerRef' = c
    /\ UNCHANGED <<alive, isMounted, registered, debounceTimeout, delayTimeout,
                   selection, selectionState, source, elapsed, published, rangeError, warned,
                   lateUpdate, signalOk, removeThrows, minLength, liveDebounce, liveDelay>>
    /\ lastCleared' = "none"

\* an unmount whose cleanup removes no listener
UnmountKeepsListeners ==
    /\ alive
    /\ alive' = FALSE
    /\ isMounted' = FALSE
    /\ debounceTimeout' = -1
    /\ delayTimeout' = -1
    /\ UNCHANGED <<registered, containerProp, containerRef, selection, selectionState,
                   source, elapsed, published, rangeError, warned, lateUpdate, signalOk, removeThrows, minLength>>
    /\ liveDebounce' = ClearedTimeout(debounceTimeout, liveDebounce)
    /\ liveDelay' = ClearedTimeout(delayTimeout, liveDelay)
    /\ lastCleared' = "none"

\* an unmount whose cleanup neither marks the hook unmounted nor clears its
\* timers
UnmountKeepsTimers ==
    /\ alive
    /\ alive' = FALSE
    /\ registered' = {}
    /\ UNCHANGED <<isMounted, debounceTimeout, delayTimeout, containerProp,
                   containerRef, selection, selectionState, source, elapsed,
                   published, rangeError, warned, lateUpdate, signalOk, removeThrows, minLength, liveDebounce, liveDelay>>
    /\ lastCleared' = "none"

\* the component unmounts: the cleanups of both effects run (lines 1104-1118,
\* 1124-1128), and with them cleanupResources (lines 1038-1065). abort()
\* removes the listeners where the signal option is honoured; elsewhere they
\* go by removeEventListener, whose errors are swallowed
Unmount ==
    /\ alive
    /\ alive' = FALSE
    /\ isMounted' = FALSE
    /\ debounceTimeout' = -1
    /\ delayTimeout' = -1
    /\ registered' = IF signalOk \/ ~removeThrows THEN {} ELSE registered
    /\ UNCHANGED <<containerProp, containerRef, selection, selectionState, source,
                   elapsed, published, rangeError, warned, lateUpdate, signalOk, removeThrows, minLength>>
    /\ liveDebounce' = ClearedTimeout(debounceTimeout, liveDebounce)
    /\ liveDelay' = ClearedTimeout(delayTimeout, liveDelay)
    /\ lastCleared' = "none"

\* ------------------------------------------- version-bump script (analyze-version-bump.js)
\* A line of output is a sequence: a word in characters, or a fixed message
\* as a sequence of one string.

Major == <<"m", "a", "j", "o", "r">>

Minor == <<"m", "i", "n", "o", "r">>

Patch == <<"p", "a", "t", "c", "h">>

\* line 138
BumpWords == {Major, Minor, Patch}

\* String.prototype.toLowerCase, on the letters of the model
LowerChar(c) ==
    CASE c = "M" -> "m" [] c = "A" -> "a" [] c = "J" -> "j" [] c = "O" -> "o"
      [] c = "R" -> "r" [] c = "P" -> "p" [] c = "T" -> "t" [] c = "C" -> "c"
      [] c = "H" -> "h" [] OTHER -> c

ToLowerCase(s) == [i \in 1..Len(s) |-> LowerChar(s[i])]

\* the tags git describe can print
Tags == {<<"v", "1">>, <<"v", "2">>}

\* what getLatestTag finds: a tag, no tag (empty output), or git failing
TagOutcomes == [kind : {"tag"}, tag : Tags] \cup
               {[kind |-> "none", tag |-> NoChars], [kind |-> "throws", tag |-> NoChars]}

\* what git log prints since the tag, or git failing in getGitDiff
DiffOutcomes == [kind : {"ok"}, commits : {NoChars, <<" ", "\n">>, <<"a">>, <<"b">>}] \cup
                {[kind |-> "throws", commits |-> NoChars]}

\* the texts the API can answer with
ApiTexts ==
    {Major, Minor, Patch,
     <<"M", "a", "j", "o", "r">>, <<" ", "m", "i", "n", "o", "r", "\n">>,
     <<"P", "A", "T", "C", "H">>, <<"m", "a", "j", "o", "r", ".">>,
     <<"a">>, NoChars}

\* what callClaudeAPI and the reading of its response give: a text, or a
\* failure (request error, unparsable body, response.error, no content)
ApiOutcomes == [kind : {"text"}, text : ApiTexts] \cup
               [kind : {"request failed", "parse failed", "api error", "no content"},
                text : {NoChars}]

NoApiOutcome == [kind |-> "none", text |-> NoChars]

BumpUnused ==
    /\ bpc = "exit"
    /\ apiKey = FALSE
    /\ latestTag = NoChars
    /\ commits = NoChars
    /\ apiResponse = NoApiOutcome
    /\ stdout = <<>>
    /\ stderr = <<>>
    /\ exitCode = -1

\* ------------------------------------------------------------ findGitRoot

\* a resolved path is the sequence of its components; <<>> is the filesystem root
MaxDepth == 2

DirNames == {"u", "p"}

Paths == UNION {[1..n -> DirNames] : n \in 0..MaxDepth}

\* null
NoPath == <<"null">>

\* path.dirname of a resolved path; the root is its own parent
Dirname(dir) == IF dir = <<>> THEN <<>> ELSE SubSeq(dir, 1, Len(dir) - 1)

\* the start path and its ancestors
Ancestors(dir) == {SubSeq(dir, 1, n) : n \in 0..Len(dir)}

\* what stat of '.git' can find: nothing (stat throws), a directory, a file
\* (a submodule's or worktree's), or something that is neither
EntryKinds == {"none", "dir", "file", "other"}

\* a loop condition that stops at the filesystem root only
InLoopPastHome(dir, home) == dir # Dirname(dir)

\* line 146: the condition of the while loop
InLoop(dir, home) == dir # home /\ dir # Dirname(dir)

\* lines 149-153: stat succeeded and the entry is a directory or a file
IsGitEntry(k) == k \in {"dir", "file"}

WalkUnused ==
    /\ wpc = "done"
    /\ startPath = <<>>
    /\ homePath = <<>>
    /\ gitEntry = [d \in {<<>>} |-> "none"]
    /\ currentPath = <<>>
    /\ examined = {}
    /\ gitRoot = NoPath

\* lines 146-159, one iteration that finds '.git' and returns (line 152)
FindGitRootFound ==
    /\ wpc = "loop"
    /\ InLoop(currentPath, homePath)
    /\ IsGitEntry(gitEntry[currentPath])
    /\ examined' = examined \cup {currentPath}
    /\ gitRoot' = currentPath
    /\ wpc' = "done"
    /\ UNCHANGED <<startPath, homePath, gitEntry, currentPath>>

\* lines 146-159, one iteration that finds no '.git' and moves to the parent
FindGitRootUp ==
    /\ wpc = "loop"
    /\ InLoop(currentPath, homePath)
    /\ ~IsGitEntry(gitEntry[currentPath])
    /\ examined' = examined \cup {currentPath}
    /\ currentPath' = Dirname(currentPath)
    /\ UNCHANGED <<wpc, startPath, homePath, gitEntry, gitRoot>>

\* line 162: the loop is left and null is returned
FindGitRootNull ==
    /\ wpc = "loop"
    /\ ~InLoop(currentPath, homePath)
    /\ gitRoot' = NoPath
    /\ wpc' = "done"
    /\ UNCHANGED <<startPath, homePath, gitEntry, currentPath, examined>>

\* ----------------------------------------------------- PerformanceMonitor

MaxTimers == 3

TimerIds == 1..MaxTimers

MonitorUnused ==
    /\ timeoutCount = 0
    /\ timers = [id \in TimerIds |-> "unused"]

\* lines 377-380: the instrumented window.setTimeout
SetTimeout(id) ==
    /\ timers[id] = "unused"
    /\ \A j \in TimerIds : j < id => timers[j] # "unused"
    /\ timeoutCount' = timeoutCount + 1
    /\ timers' = [timers EXCEPT ![id] = "pending"]

\* lines 382-385: the instrumented window.clearTimeout, with the id of a
\* pending timeout, of one that has fired or been cleared, or of none
ClearTimeout(id) ==
    /\ timeoutCount' = IF timeoutCount - 1 > 0 THEN timeoutCount - 1 ELSE 0
    /\ timers' = [timers EXCEPT ![id] = IF @ = "pending" THEN "cleared" ELSE @]

\* the browser runs the callback of a pending timeout
FireTimeout(id) ==
    /\ timers[id] = "pending"
    /\ timers' = [timers EXCEPT ![id] = "fired"]
    /\ UNCHANGED timeoutCount

\* console.log / console.error of a fixed message
Say(out, message) == Append(out, <<message>>)

\* main up to the first git call (lines 151-157)
MainStart ==
    /\ bpc = "main"
    /\ IF apiKey
       THEN /\ bpc' = "tag"
            /\ UNCHANGED <<stderr, exitCode>>
       ELSE /\ stderr' = Say(stderr, "Error: ANTHROPIC_API_KEY environment variable is not set")
            /\ exitCode' = 1
            /\ bpc' = "exit"
    /\ UNCHANGED <<apiKey, latestTag, commits, apiResponse, stdout>>

\* getLatestTag (lines 39-52) and what main does with its result (160-169)
GetLatestTag(found) ==
    /\ bpc = "tag"
    /\ IF found.kind = "tag"
       THEN /\ latestTag' = found.tag
            /\ stderr' = Say(stderr, "Analyzing changes since")
            /\ bpc' = "diff"
            /\ UNCHANGED <<stdout, exitCode>>
       ELSE /\ stdout' = Append(Say(Say(stdout, "No previous tags found, will analyze all changes"),
                                    "No previous version found. Defaulting to patch bump."),
                                Patch)
            /\ exitCode' = 0
            /\ bpc' = "exit"
            /\ UNCHANGED <<latestTag, stderr>>
    /\ UNCHANGED <<apiKey, commits, apiResponse>>

\* getGitDiff (lines 11-37) and what main does with its result (172-181, 189-193)
GetGitDiff(diff) ==
    /\ bpc = "diff"
    /\ IF diff.kind = "throws"
       THEN /\ stderr' = Say(Say(Say(stderr, "Error getting git diff:"), "Error:"),
                             "Defaulting to patch version bump")
            /\ stdout' = Append(stdout, Patch)
            /\ exitCode' = 1
            /\ bpc' = "exit"
            /\ UNCHANGED commits
       ELSE /\ commits' = diff.commits
            /\ IF diff.commits = NoChars \/ Trim(diff.commits) = NoChars
               THEN /\ stderr' = Say(stderr, "No changes detected since last version")
                    /\ stdout' = Append(stdout, Patch)
                    /\ exitCode' = 0
                    /\ bpc' = "exit"
               ELSE /\ stderr' = Say(stderr, "Consulting Claude for version bump recommendation...")
                    /\ bpc' = "api"
                    /\ UNCHANGED <<stdout, exitCode>>
    /\ UNCHANGED <<apiKey, latestTag, apiResponse>>

\* callClaudeAPI (lines 54-109): the request is sent and the promise settles
CallClaudeAPI(answer) ==
    /\ bpc = "api"
    /\ apiResponse' = answer
    /\ bpc' = "answered"
    /\ UNCHANGED <<apiKey, latestTag, commits, stdout, stderr, exitCode>>

\* analyzeVersionBump after the await (lines 133-148) and the end of main
\* (184-187)
AnalyzeVersionBump ==
    /\ bpc = "answered"
    /\ IF apiResponse.kind # "text"
       THEN /\ stderr' = Say(Say(stderr, "Error calling Claude API:"), "Claude recommends:")
            /\ stdout' = Append(Say(stdout, "Defaulting to patch version bump"), Patch)
       ELSE \E responseText \in {Trim(ToLowerCase(apiResponse.text))} :
                IF responseText \notin BumpWords
                THEN /\ stderr' = Say(Say(stderr, "Invalid response from Claude"),
                                      "Claude recommends:")
                     /\ stdout' = Append(stdout, Patch)
                ELSE /\ stderr' = Say(stderr, "Claude recommends:")
                     /\ stdout' = Append(stdout, responseText)
    /\ exitCode' = 0
    /\ bpc' = "exit"
    /\ UNCHANGED <<apiKey, latestTag, commits, apiResponse>>

\* --------------------------------------------------------------- actions

NoCall == [action |-> "none", taskId |-> NoChars, status |-> ""]

TasksInit ==
    /\ pc = [p \in Procs |-> "idle"]
    /\ call = [p \in Procs |-> NoCall]
    /\ content = [p \in Procs |-> NoChars]
    /\ result = [p \in Procs |-> NoResponse]
    /\ lastWriter = 0
    /\ prevResult = [p \in Procs |-> NoResponse]
    /\ raised = [p \in Procs |-> "none"]

\* invocation p starts with arguments c and reads tasks.md (line 52)
Start(p, c) ==
    /\ pc[p] = "idle"
    /\ pc' = [pc EXCEPT ![p] = "read"]
    /\ call' = [call EXCEPT ![p] = c]
    /\ content' = [content EXCEPT ![p] = file]
    /\ UNCHANGED <<file, result, lastWriter, prevResult, raised>>

\* a Finish that computes from the text on disk now, not from the text read
FinishFresh(p) ==
    /\ pc[p] = "read"
    /\ \E r \in {manageTasksHandler(file, call[p])} :
           /\ result' = [result EXCEPT ![p] = r]
           /\ file' = IF r.write THEN NoChars ELSE file
           /\ pc' = [pc EXCEPT ![p] = IF r.write THEN "write" ELSE "done"]
    /\ UNCHANGED <<call, content, lastWriter, prevResult, raised>>

\* invocation p computes its response from the text it read (lines 53-333);
\* a response without a write is returned at once, and for a successful
\* set-status writeFile (line 199) opens tasks.md, which truncates it
Finish(p) ==
    /\ pc[p] = "read"
    /\ \E r \in {manageTasksHandler(content[p], call[p])} :
           /\ result' = [result EXCEPT ![p] = r]
           /\ file' = IF r.write THEN NoChars ELSE file
           /\ pc' = [pc EXCEPT ![p] = IF r.write THEN "write" ELSE "done"]
    /\ UNCHANGED <<call, content, lastWriter, prevResult, raised>>

\* writeFile (line 199) writes the updated document and the handler returns
WriteFile(p) ==
    /\ pc[p] = "write"
    /\ file' = result[p].text
    /\ lastWriter' = p
    /\ pc' = [pc EXCEPT ![p] = "done"]
    /\ UNCHANGED <<call, content, result, prevResult, raised>>

\* the caller takes the response; p can be invoked again
Return(p) ==
    /\ pc[p] = "done"
    /\ pc' = [pc EXCEPT ![p] = "idle"]
    /\ call' = [call EXCEPT ![p] = NoCall]
    /\ content' = [content EXCEPT ![p] = NoChars]
    /\ result' = [result EXCEPT ![p] = NoResponse]
    /\ raised' = [raised EXCEPT ![p] = "none"]
    /\ UNCHANGED <<file, lastWriter, prevResult>>

\* the caller takes the response and makes the same call again: the handler
\* starts anew and reads tasks.md (line 52)
Repeat(p) ==
    /\ pc[p] = "done"
    /\ prevResult' = [prevResult EXCEPT ![p] = result[p]]
    /\ result' = [result EXCEPT ![p] = NoResponse]
    /\ content' = [content EXCEPT ![p] = file]
    /\ pc' = [pc EXCEPT ![p] = "read"]
    /\ UNCHANGED <<file, call, lastWriter, raised>>

\* the error codes a file-system call of the handler can fail with
ErrorCodes == {"ENOENT", "EACCES", "EIO"}

\* a catch block that gives every error the generic message
CatchErrorGeneric(code) == Fail("Failed to manage tasks")

\* the catch block (lines 335-356)
CatchError(code) ==
    IF code = "ENOENT" THEN Fail("tasks.md not found for specification")
    ELSE Fail("Failed to manage tasks")

\* the handler's exception is caught and turned into its response
Caught(p, code) ==
    /\ raised' = [raised EXCEPT ![p] = code]
    /\ result' = [result EXCEPT ![p] = CatchError(code)]
    /\ pc' = [pc EXCEPT ![p] = "done"]

\* invocation p starts with arguments c and readFile (line 52) throws
StartFails(p, c, code) ==
    /\ pc[p] = "idle"
    /\ call' = [call EXCEPT ![p] = c]
    /\ Caught(p, code)
    /\ UNCHANGED <<file, content, lastWriter, prevResult>>

\* writeFile (line 199) throws before it has opened tasks.md
WriteOpenFails(p, code) ==
    /\ pc[p] = "read"
    /\ manageTasksHandler(content[p], call[p]).write
    /\ Caught(p, code)
    /\ UNCHANGED <<file, call, content, lastWriter, prevResult>>

\* writeFile (line 199) throws after it has opened and truncated tasks.md
WriteFails(p, code) ==
    /\ pc[p] = "write"
    /\ Caught(p, code)
    /\ UNCHANGED <<file, call, content, lastWriter, prevResult>>

\* one caller at a time, every action of the tool, every document
Init ==
    /\ file \in Docs \cup {ScenarioDoc}
    /\ TasksInit
    /\ ApprovalIdle
    /\ GitUnused
    /\ MemoUnused
    /\ PromptUnused
    /\ HookUnused
    /\ BumpUnused
    /\ WalkUnused
    /\ MonitorUnused
    /\ RemovalUnused
    /\ HandlerUnused

Next ==
    \/ \E c \in Calls : Start(1, c) /\ UNCHANGED notTaskVars
    \/ Finish(1) /\ UNCHANGED notTaskVars
    \/ WriteFile(1) /\ UNCHANGED notTaskVars
    \/ Return(1) /\ UNCHANGED notTaskVars

Spec == Init /\ [][Next]_vars

\* one caller at a time, with file-system calls that can fail
ErrorNext ==
    \/ \E c \in Calls : Start(1, c) /\ UNCHANGED notTaskVars
    \/ \E c \in Calls, code \in ErrorCodes : StartFails(1, c, code) /\ UNCHANGED notTaskVars
    \/ Finish(1) /\ UNCHANGED notTaskVars
    \/ \E code \in ErrorCodes : WriteOpenFails(1, code) /\ UNCHANGED notTaskVars
    \/ WriteFile(1) /\ UNCHANGED notTaskVars
    \/ \E code \in ErrorCodes : WriteFails(1, code) /\ UNCHANGED notTaskVars
    \/ Return(1) /\ UNCHANGED notTaskVars

ErrorSpec == Init /\ [][ErrorNext]_vars

\* one caller that sets a status and makes the same call again
RepeatCalls == {c \in Calls : c.action = "set-status"}

RepeatNext ==
    \/ \E c \in RepeatCalls : Start(1, c) /\ UNCHANGED notTaskVars
    \/ Finish(1) /\ UNCHANGED notTaskVars
    \/ WriteFile(1) /\ UNCHANGED notTaskVars
    \/ Repeat(1) /\ UNCHANGED notTaskVars

RepeatSpec == Init /\ [][RepeatNext]_vars

\* the approval record alone: respond calls and polls
ApprovalInit ==
    /\ file = NoChars
    /\ TasksInit
    /\ ApprovalIdle
    /\ GitUnused
    /\ MemoUnused
    /\ PromptUnused
    /\ HookUnused
    /\ BumpUnused
    /\ WalkUnused
    /\ MonitorUnused
    /\ RemovalUnused
    /\ HandlerUnused

ApprovalNext ==
    \/ \E s \in RespondStatuses, r \in {"", "too vague"}, cs \in CommentBatches :
           Respond(s, r, cs) /\ UNCHANGED notApprovalVars
    \/ \E found \in BOOLEAN : Poll(found) /\ UNCHANGED notApprovalVars

ApprovalSpec == ApprovalInit /\ [][ApprovalNext]_vars

\* two overlapping set-status invocations on a document of two tasks
RaceDocs ==
    {Join(<<TaskLine(0, m1, <<"1">>), TaskLine(0, m2, <<"2">>)>>, LF) :
        m1 \in Markers, m2 \in Markers}

RaceCalls ==
    {[action |-> "set-status", taskId |-> t, status |-> s] :
        t \in {<<"1">>, <<"2">>, <<"9">>}, s \in Statuses \ {""}}

RaceInit ==
    /\ file \in RaceDocs
    /\ TasksInit
    /\ ApprovalIdle
    /\ GitUnused
    /\ MemoUnused
    /\ PromptUnused
    /\ HookUnused
    /\ BumpUnused
    /\ WalkUnused
    /\ MonitorUnused
    /\ RemovalUnused
    /\ HandlerUnused

RaceNext ==
    \/ \E p \in Procs, c \in RaceCalls : Start(p, c) /\ UNCHANGED notTaskVars
    \/ \E p \in Procs : Finish(p) /\ UNCHANGED notTaskVars
    \/ \E p \in Procs : WriteFile(p) /\ UNCHANGED notTaskVars

RaceSpec == RaceInit /\ [][RaceNext]_vars

\* one caller of ensure, calling it again and again with the same settings, on
\* every ignore-file, with and without a repository
GitInit ==
    /\ file = NoChars
    /\ TasksInit
    /\ ApprovalIdle
    /\ gitignore \in {Absent} \cup {Present(d) : d \in GitDocs \cup {BlankTailDoc}}
    /\ repo \in BOOLEAN
    /\ cfg \in [Procs -> Configs]
    /\ cfg[2] = DefaultConfig
    /\ GitIdle
    /\ MemoUnused
    /\ PromptUnused
    /\ HookUnused
    /\ BumpUnused
    /\ WalkUnused
    /\ MonitorUnused
    /\ RemovalUnused
    /\ HandlerUnused

GitNext ==
    \/ EnsureStart(1) /\ UNCHANGED notGitVars
    \/ \E threw \in BOOLEAN : FindRepository(1, threw) /\ UNCHANGED notGitVars
    \/ FileExists(1) /\ UNCHANGED notGitVars
    \/ \E threw \in BOOLEAN : ReadFile(1, threw) /\ UNCHANGED notGitVars
    \/ WriteOpen(1) /\ UNCHANGED notGitVars
    \/ \E outcome \in WriteOutcomes : WriteAttempt(1, outcome) /\ UNCHANGED notGitVars
    \/ BackoffElapsed(1) /\ UNCHANGED notGitVars
    \/ EnsureReturn(1) /\ UNCHANGED notGitVars

GitSpec == GitInit /\ [][GitNext]_vars

\* every await of a call completes: the file system answers and timers fire
GitFairSpec == GitSpec /\ WF_vars(GitNext)

\* what one ensure call with the default settings, alone and with no
\* file-system error, leaves of ignore-file g (lines 70-99)
SingleCallResult(g) ==
    IF ~g.exists THEN Present(createGitignore(TARGET_PATTERN))
    ELSE IF isPatternPresent(g.text) THEN g
    ELSE Present(appendPattern(g.text, TARGET_PATTERN))

\* two ensure calls with the default settings in one repository, both under
\* way: each is at its repository search, which does not look at the
\* ignore-file, so every overlap of their checks, reads and writes follows
GitRaceInit ==
    /\ file = NoChars
    /\ TasksInit
    /\ ApprovalIdle
    /\ gitignore \in {Absent} \cup {Present(d) : d \in GitDocs}
    /\ repo = TRUE
    /\ cfg = [p \in Procs |-> DefaultConfig]
    /\ gpc = [p \in Procs |-> "find"]
    /\ toWrite = [p \in Procs |-> NoChars]
    /\ kind = [p \in Procs |-> "none"]
    /\ attempt = [p \in Procs |-> 0]
    /\ writes = [p \in Procs |-> <<>>]
    /\ waits = [p \in Procs |-> <<>>]
    /\ gresult = [p \in Procs |-> NoGitResult]
    /\ before = [p \in Procs |-> gitignore]
    /\ prev = [p \in Procs |-> "none"]
    /\ calls = [p \in Procs |-> 1]
    /\ MemoUnused
    /\ PromptUnused
    /\ HookUnused
    /\ BumpUnused
    /\ WalkUnused
    /\ MonitorUnused
    /\ RemovalUnused
    /\ HandlerUnused

GitRaceNext ==
    \/ \E p \in Procs, threw \in BOOLEAN : FindRepository(p, threw) /\ UNCHANGED notGitVars
    \/ \E p \in Procs : FileExists(p) /\ UNCHANGED notGitVars
    \/ \E p \in Procs, threw \in BOOLEAN : ReadFile(p, threw) /\ UNCHANGED notGitVars
    \/ \E p \in Procs : WriteOpen(p) /\ UNCHANGED notGitVars
    \/ \E p \in Procs, outcome \in WriteOutcomes : WriteAttempt(p, outcome) /\ UNCHANGED notGitVars
    \/ \E p \in Procs : BackoffElapsed(p) /\ UNCHANGED notGitVars

GitRaceSpec == GitRaceInit /\ [][GitRaceNext]_vars

\* bootstrap invocations for two roots of one repository, one at a time
\* the records two overlapping respond calls find: a new one, one sent back
\* for revision with a comment, and an approved one
RaceRecords ==
    {NewApproval,
     Responded(NewApproval, "needs-revision", "too vague", <<GenB>>),
     Responded(NewApproval, "approved", "", <<>>)}

\* two respond calls on the same approval id that may overlap
RespondRaceInit ==
    /\ file = NoChars
    /\ TasksInit
    /\ approval \in RaceRecords
    /\ responds = <<>>
    /\ polled = NotPolled
    /\ RespondIdle
    /\ GitUnused
    /\ MemoUnused
    /\ PromptUnused
    /\ HookUnused
    /\ BumpUnused
    /\ WalkUnused
    /\ MonitorUnused
    /\ RemovalUnused
    /\ HandlerUnused

RespondRaceNext ==
    \/ \E p \in Procs, st \in RespondStatuses, r \in {"", "too vague"}, cs \in CommentBatches :
           RespondRead(p, st, r, cs) /\ UNCHANGED notApprovalVars
    \/ \E p \in Procs : RespondWrite(p) /\ UNCHANGED notApprovalVars

RespondRaceSpec == RespondRaceInit /\ [][RespondRaceNext]_vars

MemoInit ==
    /\ file = NoChars
    /\ TasksInit
    /\ ApprovalIdle
    /\ gitignore \in {Absent} \cup {Present(d) : d \in GitDocs}
    /\ repo \in BOOLEAN
    /\ cfg = [p \in Procs |-> DefaultConfig]
    /\ GitIdle
    /\ MemoUnused
    /\ PromptUnused
    /\ HookUnused
    /\ BumpUnused
    /\ WalkUnused
    /\ MonitorUnused
    /\ RemovalUnused
    /\ HandlerUnused

MemoNext ==
    \/ \E r \in Roots : Bootstrap(r) /\ UNCHANGED notMemoVars
    \/ \E threw \in BOOLEAN : FindRepository(1, threw) /\ UNCHANGED notGitVars
    \/ FileExists(1) /\ UNCHANGED notGitVars
    \/ \E threw \in BOOLEAN : ReadFile(1, threw) /\ UNCHANGED notGitVars
    \/ WriteOpen(1) /\ UNCHANGED notGitVars
    \/ \E outcome \in WriteOutcomes : WriteAttempt(1, outcome) /\ UNCHANGED notGitVars
    \/ BackoffElapsed(1) /\ UNCHANGED notGitVars
    \/ EnsureReturn(1) /\ UNCHANGED notGitVars

MemoSpec == MemoInit /\ [][MemoNext]_vars

\* generateRevisionPrompt applied to every comment list of at most MaxComments
\* comments, with and without general feedback
PromptInit ==
    /\ file = NoChars
    /\ TasksInit
    /\ ApprovalIdle
    /\ GitUnused
    /\ MemoUnused
    /\ pcomments \in UNION {[1..n -> PromptComments] : n \in 0..MaxComments}
    /\ pfeedback \in {"", "too vague"}
    /\ prompt = <<>>
    /\ HookUnused
    /\ BumpUnused
    /\ WalkUnused
    /\ MonitorUnused
    /\ RemovalUnused
    /\ HandlerUnused

PromptNext ==
    \/ GeneratePrompt /\ UNCHANGED notPromptVars
    \/ DropPrompt /\ UNCHANGED notPromptVars

PromptSpec == PromptInit /\ [][PromptNext]_vars

\* a component that uses the hook, mounted with each container, under every
\* order of selection changes, pointer events, timer firings, re-renders with
\* another container, clearSelection calls and the unmount
HookInit ==
    /\ file = NoChars
    /\ TasksInit
    /\ ApprovalIdle
    /\ GitUnused
    /\ MemoUnused
    /\ PromptUnused
    /\ \E c \in Elements : HookMounted(c)
    /\ BumpUnused
    /\ WalkUnused
    /\ MonitorUnused
    /\ RemovalUnused
    /\ HandlerUnused
    /\ signalOk \in BOOLEAN
    /\ removeThrows \in BOOLEAN
    /\ minLength \in MinLengths

HookNext ==
    \/ \E sel \in Selections : SelectionChange(sel) /\ UNCHANGED notHookVars
    \/ \E place \in Places : MouseUp(place) /\ UNCHANGED notHookVars
    \/ \E place \in Places : TouchEnd(place) /\ UNCHANGED notHookVars
    \/ Tick /\ UNCHANGED notHookVars
    \/ FireDelay /\ UNCHANGED notHookVars
    \/ \E throws \in BOOLEAN : FireDebounce(throws) /\ UNCHANGED notHookVars
    \/ ClearSelection /\ UNCHANGED notHookVars
    \/ \E c \in Elements : Rerender(c) /\ UNCHANGED notHookVars
    \/ Unmount /\ UNCHANGED notHookVars

HookSpec == HookInit /\ [][HookNext]_vars

\* one run of the version-bump script, with and without the API key
BumpInit ==
    /\ file = NoChars
    /\ TasksInit
    /\ ApprovalIdle
    /\ GitUnused
    /\ MemoUnused
    /\ PromptUnused
    /\ HookUnused
    /\ WalkUnused
    /\ MonitorUnused
    /\ RemovalUnused
    /\ HandlerUnused
    /\ bpc = "main"
    /\ apiKey \in BOOLEAN
    /\ latestTag = NoChars
    /\ commits = NoChars
    /\ apiResponse = NoApiOutcome
    /\ stdout = <<>>
    /\ stderr = <<>>
    /\ exitCode = -1

BumpNext ==
    \/ MainStart /\ UNCHANGED notBumpVars
    \/ \E found \in TagOutcomes : GetLatestTag(found) /\ UNCHANGED notBumpVars
    \/ \E diff \in DiffOutcomes : GetGitDiff(diff) /\ UNCHANGED notBumpVars
    \/ \E answer \in ApiOutcomes : CallClaudeAPI(answer) /\ UNCHANGED notBumpVars
    \/ AnalyzeVersionBump /\ UNCHANGED notBumpVars

BumpSpec == BumpInit /\ [][BumpNext]_vars

\* get-approval-status called on a record that reviewers respond to
StatusNext ==
    \/ \E s \in RespondStatuses, r \in {"", "too vague"}, cs \in CommentBatches :
           Respond(s, r, cs) /\ UNCHANGED <<notApprovalVars, handlerVars>>
    \/ \E hasPath \in BOOLEAN : HandlerCall(hasPath) /\ UNCHANGED notStatusVars
    \/ \E throws \in BOOLEAN : ValidatePath(throws) /\ UNCHANGED notStatusVars
    \/ \E throws \in BOOLEAN : StorageStart(throws) /\ UNCHANGED notStatusVars
    \/ \E found \in BOOLEAN, throws \in BOOLEAN :
           GetApproval(found, throws) /\ UNCHANGED notStatusVars
    \/ \E throws \in BOOLEAN : StorageStop(throws) /\ UNCHANGED notStatusVars
    \/ HandlerRespond /\ UNCHANGED notStatusVars
    \/ HandlerReturned /\ UNCHANGED notStatusVars

StatusSpec == ApprovalInit /\ [][StatusNext]_vars

\* the lines of the ignore-files removePattern is given
RemoveLineSet == PATTERNS \cup {<<"x">>, <<>>, PATTERN_COMMENT, <<"/", "W">>, <<" ", "W", "/", " ", "\r">>}

RemoveDocs ==
    {Join(ls, LF) : ls \in UNION {[1..n -> RemoveLineSet] : n \in 0..MaxGitLines}}
    \cup {BlankTailDoc, <<"x", "\n", "W", "\n", "\n", "\n", "x">>}

\* removePattern on a repository's ignore-file, followed by ensure
RemoveInit ==
    /\ file = NoChars
    /\ TasksInit
    /\ ApprovalIdle
    /\ gitignore \in {Absent} \cup {Present(d) : d \in RemoveDocs}
    /\ repo = TRUE
    /\ cfg \in [Procs -> Configs]
    /\ cfg[2] = DefaultConfig
    /\ GitIdle
    /\ MemoUnused
    /\ PromptUnused
    /\ HookUnused
    /\ BumpUnused
    /\ WalkUnused
    /\ MonitorUnused
    /\ RemovalUnused
    /\ HandlerUnused

RemoveNext ==
    \/ \E threw \in BOOLEAN : RemovePattern(1, threw) /\ UNCHANGED notRemoveVars
    \/ removal.called /\ GitNext

RemoveSpec == RemoveInit /\ [][RemoveNext]_vars

\* the other components at rest
OthersUnused ==
    /\ file = NoChars
    /\ TasksInit
    /\ ApprovalIdle
    /\ GitUnused
    /\ MemoUnused
    /\ PromptUnused
    /\ HookUnused
    /\ BumpUnused

\* findGitRoot from every start path, with every home directory and every
\* placement of '.git' entries on the way to the root
WalkInit ==
    /\ OthersUnused
    /\ MonitorUnused
    /\ RemovalUnused
    /\ HandlerUnused
    /\ wpc = "loop"
    /\ startPath \in Paths
    /\ homePath \in Paths
    /\ gitEntry \in [Ancestors(startPath) -> EntryKinds]
    /\ currentPath = startPath
    /\ examined = {}
    /\ gitRoot = NoPath

WalkNext ==
    \/ FindGitRootFound /\ UNCHANGED notWalkVars
    \/ FindGitRootUp /\ UNCHANGED notWalkVars
    \/ FindGitRootNull /\ UNCHANGED notWalkVars

\* the loop is the only thing running: an iteration that can run does run
WalkSpec == WalkInit /\ [][WalkNext]_vars /\ WF_vars(WalkNext)

\* a monitored page that sets, clears and lets fire its timeouts
MonitorInit ==
    /\ OthersUnused
    /\ WalkUnused
    /\ MonitorUnused
    /\ RemovalUnused
    /\ HandlerUnused

MonitorNext ==
    \/ \E id \in TimerIds : SetTimeout(id) /\ UNCHANGED notMonitorVars
    \/ \E id \in TimerIds : ClearTimeout(id) /\ UNCHANGED notMonitorVars
    \/ \E id \in TimerIds : FireTimeout(id) /\ UNCHANGED notMonitorVars

MonitorSpec == MonitorInit /\ [][MonitorNext]_vars


\* ------------------------------------------------------- properties: tasks

\* positions at which two texts of the same length differ
DiffPositions(a, b) == {i \in 1..Len(a) : a[i] # b[i]}

\* invocation p has returned from a set-status naming a task of the text it read
SetStatusDone(p) ==
    /\ pc[p] = "done"
    /\ call[p].action = "set-status"
    /\ call[p].status # ""
    /\ IndexOfId(parseTasksFromMarkdown(content[p]), call[p].taskId) # 0

\* C1: after set-status(id, s) on a document holding id, the document differs
\* from the one read in at most the marker character of that task's line, and
\* parsing it again gives the same tasks (ids, descriptions, order) with the
\* same statuses except that this task's status is s.
C1_SetStatusChangesOnlyMarker ==
    SetStatusDone(1) =>
        \A old \in {parseTasksFromMarkdown(content[1])} :
        \A new \in {parseTasksFromMarkdown(file)} :
        \A n \in {IndexOfId(old, call[1].taskId)} :
            /\ Len(file) = Len(content[1])
            /\ DiffPositions(content[1], file) \subseteq {old[n].markerPos}
            /\ content[1][old[n].markerPos] \in Markers
            /\ Len(new) = Len(old)
            /\ \A m \in 1..Len(old) :
                   /\ new[m].id = old[m].id
                   /\ new[m].description = old[m].description
                   /\ new[m].isHeader = old[m].isHeader
                   /\ m # n => new[m].status = old[m].status
            /\ new[n].status = call[1].status
            /\ result[1].success <=> file # content[1]

\* C1 witness: a set-status that changed the marker of the second line of a
\* CRLF document whose first line is prose
C1_Witness ==
    /\ SetStatusDone(1)
    /\ result[1].success
    /\ content[1] = Join(<<(<<"a", " ", "b">>), TaskLine(2, " ", <<"1", ".", "1">>)>>, CRLF)
    /\ call[1].status = "completed"
    /\ file = Join(<<(<<"a", " ", "b">>), TaskLine(2, "x", <<"1", ".", "1">>)>>, CRLF)

\* C3: whatever the interleaving, every invocation answers from the text it
\* read alone, and the document on disk is the text read by the invocation that
\* wrote last with only its own marker changed, once no write is under way: a
\* write that happened between that invocation's read and its write is
\* overwritten, and both report success.
C3_LastWriteWins ==
    /\ \A p \in Procs :
           pc[p] = "done" => result[p] = manageTasksHandler(content[p], call[p])
    /\ (lastWriter # 0 /\ \A p \in Procs : pc[p] # "write") =>
           /\ pc[lastWriter] = "done"
           /\ result[lastWriter].success
           /\ file = updateTaskStatus(content[lastWriter], call[lastWriter].taskId,
                                      call[lastWriter].status)

\* C3 witness: both invocations changed different tasks and reported success,
\* and the document no longer holds the status the first writer set
C3_LostUpdate ==
    /\ pc[1] = "done" /\ pc[2] = "done"
    /\ result[1].success /\ result[2].success
    /\ call[1].taskId # call[2].taskId
    /\ lastWriter = 2
    /\ \E tasks \in {parseTasksFromMarkdown(file)} :
           /\ getTaskById(tasks, call[1].taskId).status # call[1].status
           /\ getTaskById(tasks, call[2].taskId).status = call[2].status

\* C6: get, set-status and context with a taskId that names no task of the
\* document always answer success = FALSE.
C6_UnknownTaskIdFails ==
    \A p \in {1} :
        /\ pc[p] = "done"
        /\ call[p].action \in {"get", "set-status", "context"}
        /\ call[p].taskId # NoChars
        /\ IndexOfId(parseTasksFromMarkdown(content[p]), call[p].taskId) = 0
        => ~result[p].success

\* C7: next-pending answers with the pending non-header task that comes first
\* in the document, whatever the ids are; with none it names no task.
C7_NextPendingInDocumentOrder ==
    pc[1] = "done" /\ call[1].action = "next-pending" =>
        \A tasks \in {parseTasksFromMarkdown(content[1])} :
        \A cand \in {{n \in 1..Len(tasks) : tasks[n].status = "pending" /\ ~tasks[n].isHeader}} :
            Len(tasks) > 0 =>
                /\ result[1].success
                /\ cand = {} => result[1].task = NoParsedTask
                /\ cand # {} =>
                       \E n \in cand :
                           /\ result[1].task = tasks[n]
                           /\ \A m \in cand : tasks[n].markerPos <= tasks[m].markerPos

\* C7 witness: task 2 stands before task 1.1, both pending, and 2 is returned
C7_Witness ==
    /\ pc[1] = "done" /\ call[1].action = "next-pending"
    /\ content[1] = Join(<<TaskLine(0, " ", <<"2">>), TaskLine(2, " ", <<"1", ".", "1">>)>>, LF)
    /\ result[1].task.id = <<"2">>

\* ---------------------------------------------------- properties: approvals

RECURSIVE AcceptedComments(_)
AcceptedComments(rs) ==
    IF rs = <<>> THEN <<>>
    ELSE (IF Head(rs).accepted THEN Head(rs).comments ELSE <<>>) \o AcceptedComments(Tail(rs))

\* the status the accepted respond calls leave
RECURSIVE StatusAfter(_)
StatusAfter(rs) ==
    IF rs = <<>> THEN "pending"
    ELSE IF rs[Len(rs)].accepted THEN rs[Len(rs)].to
    ELSE StatusAfter(SubSeq(rs, 1, Len(rs) - 1))

\* every respond made from pending or needs-revision was accepted, every
\* respond made from approved or rejected was refused, and the record holds
\* the status of the last accepted one
RespondTable ==
    /\ \A i \in 1..Len(responds) :
           responds[i].accepted <=> responds[i].from \in {"pending", "needs-revision"}
    /\ approval.status = StatusAfter(responds)

\* C2: once the record is approved or rejected it never changes again and
\* every further respond is refused; from pending and needs-revision every
\* respond is accepted; a status reported as completed to a poller is final.
C2_TerminalIsFinal ==
    /\ []RespondTable
    /\ [][approval.status \in Terminal => approval' = approval]_vars
    /\ [](polled.isCompleted => approval.status = polled.status)

\* C2 witness: an accepted approval followed by a refused request for revision
C2_Witness ==
    /\ Len(responds) = 2
    /\ responds[1].accepted /\ responds[1].to = "approved"
    /\ ~responds[2].accepted /\ responds[2].to = "needs-revision"
    /\ approval.status = "approved"
    /\ polled.isCompleted

\* C8: the record's comments are the comment lists of the accepted respond
\* calls, concatenated in call order; a comment list handed to a poller is a
\* prefix of the record's list ever after.
C8_CommentsAppendOnly ==
    /\ approval.comments = AcceptedComments(responds)
    /\ polled.hasComments => IsPrefix(polled.comments, approval.comments)

\* C8 witness: two accepted requests for revision with different comment lists,
\* both lists in the record and in the poll, in call order
C8_Witness ==
    /\ Len(responds) = 2
    /\ responds[1].to = "needs-revision" /\ responds[2].to = "needs-revision"
    /\ responds[1].comments = <<SelA, GenB>>
    /\ responds[2].comments = <<GenB, SelNoText>>
    /\ approval.comments = <<SelA, GenB, GenB, SelNoText>>
    /\ polled.hasComments /\ polled.comments = approval.comments

\* -------------------------------------------------------- GitignoreManager: properties

\* the number of lines of an ignore-file that isPatternPresent takes for the
\* workflow pattern
CountMatching(text) ==
    With(SplitLines(text), LAMBDA lines :
        Cardinality({n \in 1..Len(lines) : LineMatches(lines[n])}))

\* the ignore-file holds a non-comment line that is one of the five variants
HasVariantLine(text) ==
    With(SplitLines(text), LAMBDA lines :
        \E n \in 1..Len(lines) : Trim(lines[n]) \in PATTERNS)

\* ensure call p has returned
EnsureDone(p) == gpc[p] = "done"

C5_SecondCallSkips ==
    (/\ EnsureDone(1)
     /\ prev[1] \in {"created", "updated", "skipped"}
     /\ ~cfg[1].force
     /\ gresult[1].error = "none")
    => /\ gresult[1].success
       /\ gresult[1].action = "skipped"
       /\ writes[1] = <<>>
       /\ gitignore = before[1]

\* C9: a write attempt that fails with EACCES or EPERM is the last attempt of
\* its call, on whichever attempt it occurs: the call has ended with that
\* error, and the only waits are those after the earlier failed attempts.
C9_PermissionErrorNotRetried ==
    \A k \in 1..Len(writes[1]) :
        writes[1][k] \in PermissionErrors
        => /\ k = Len(writes[1])
           /\ EnsureDone(1)
           /\ gresult[1] = GitResult(FALSE, "failed", writes[1][k])
           /\ Len(waits[1]) = k - 1

\* a permission error on the second attempt ended the call
C9_Witness ==
    /\ EnsureDone(1)
    /\ writes[1] = <<"EIO", "EPERM">>
    /\ waits[1] = <<100>>
    /\ gresult[1].action = "failed"

\* the safety part of C10, over the attempts and waits of the call
RetryBounded ==
    /\ Len(writes[1]) <= 3
    /\ Len(waits[1]) <= 2
    /\ \A k \in 1..Len(waits[1]) : waits[1][k] = <<100, 200>>[k]
    /\ \A k \in 1..Len(writes[1]) :
           /\ k < Len(writes[1]) => writes[1][k] \notin {"ok"} \cup PermissionErrors
           /\ writes[1][k] = "ok"
              => EnsureDone(1) /\ gresult[1].success /\ gitignore = Present(toWrite[1])
           /\ (k < 3 /\ writes[1][k] \notin {"ok"} \cup PermissionErrors)
              => Len(waits[1]) >= k
    /\ gpc[1] = "wait" => Len(waits[1]) = Len(writes[1])
    /\ gpc[1] \in {"write", "writing"}
       => Len(waits[1]) = Len(writes[1]) /\ attempt[1] = Len(writes[1]) + 1
    /\ (Len(writes[1]) = 3 /\ writes[1][3] # "ok")
       => /\ EnsureDone(1)
          /\ gresult[1] = GitResult(FALSE, "failed", writes[1][3])
          /\ waits[1] = <<100, 200>>

\* C10: writeFileWithRetry ends after at most 3 write attempts; it returns at
\* the first attempt that succeeds; a failure other than a permission error on
\* attempt k < 3 is followed by a wait of 100*2^(k-1) ms, 100 then 200; the
\* third failure throws the last error and no wait follows it; and a call
\* that has begun to write always comes to its end.
C10_RetryTerminates ==
    /\ []RetryBounded
    /\ (gpc[1] = "write") ~> EnsureDone(1)

\* three failed attempts, two waits, and the call has ended failed
C10_Witness ==
    /\ EnsureDone(1)
    /\ writes[1] = <<"EIO", "EIO", "EIO">>
    /\ waits[1] = <<100, 200>>
    /\ gresult[1].action = "failed"

\* the positions of an ensure call at which it has asked for, or is about to
\* ask for, the ignore-file: access, readFile, writeFile and the backoff
TouchesIgnoreFile(p) == gpc[p] \in {"access", "readfile", "write", "writing", "wait"}

\* C11: when no repository root is found, ensure never comes to a check, a
\* read or a write of the ignore-file, and what it returns is success=true
\* with action skipped, never failed.
C11_NoRepositoryIsSkipped ==
    ~repo =>
        /\ ~TouchesIgnoreFile(1)
        /\ writes[1] = <<>>
        /\ EnsureDone(1) =>
               /\ gresult[1] = GitResult(TRUE, "skipped", "none")
               /\ gitignore = before[1]

\* a call outside a repository has returned skipped, with a file named
\* .gitignore lying in the directory that has no workflow entry
C11_Witness ==
    /\ ~repo
    /\ EnsureDone(1)
    /\ gresult[1].action = "skipped"
    /\ gitignore = Present(<<"x", "\n">>)

GitActions == {"created", "updated", "skipped", "failed"}

\* C12: ensure never throws. Every call ends in a returned result whose action
\* is created, updated, skipped or failed, with success=false exactly when the
\* action is failed; the result is failed exactly when a file-system call
\* threw (stat of .git, readFile, or the write that ended writeFileWithRetry
\* with a permission error or on its last attempt), and it names that error.
C12_EnsureNeverThrows ==
    /\ gpc[1] \in {"idle", "find", "access", "readfile", "write", "writing", "wait", "done"}
    /\ EnsureDone(1) =>
           /\ gresult[1].action \in GitActions
           /\ gresult[1].success <=> gresult[1].action # "failed"
           /\ gresult[1].action = "failed" <=> gresult[1].error # "none"
           /\ (writes[1] # <<>> /\ writes[1][Len(writes[1])] # "ok")
              => gresult[1] = GitResult(FALSE, "failed", writes[1][Len(writes[1])])
           /\ (writes[1] # <<>> /\ writes[1][Len(writes[1])] = "ok")
              => gresult[1] = GitResult(TRUE, kind[1], "none")
           /\ gresult[1].error \in {"stat", "read"} => writes[1] = <<>> /\ gitignore = before[1]

\* a read error has been turned into a failed result
C12_Witness ==
    /\ EnsureDone(1)
    /\ gresult[1] = GitResult(FALSE, "failed", "read")
    /\ before[1].exists

\* C19: whatever the order of the existence checks, reads and writes of two
\* concurrent default ensure calls, once both have returned, neither of them
\* failed, the ignore-file is what one call alone would have left: the
\* content it had, with one comment line and one pattern line added, or
\* unchanged when the entry was there.
C19_ConcurrentCallsConverge ==
    (\A p \in Procs : EnsureDone(p) /\ gresult[p].success)
    => gitignore = SingleCallResult(before[1])

\* C20: for each project root the ignore-file step (repository search and
\* ignore-file scan) is run at most once in the life of the process, and an
\* invocation for a root that has been ensured makes no file-system access:
\* it starts no ensure call and leaves the ignore-file and every call state
\* as they were.
C20_BootstrapOncePerRoot ==
    /\ [](\A r \in Roots : runs[r] <= 1)
    /\ [][\A r \in Roots :
              (r \in ensured /\ invocations'[r] # invocations[r])
              => UNCHANGED gitVars]_vars

\* root /a has been invoked twice and ensure ran once for it
C20_Witness ==
    /\ invocations["/a"] = 2
    /\ runs["/a"] = 1
    /\ repo
    /\ gpc[1] = "idle"
    /\ prev[1] = "updated"

\* the sections of a prompt that are of one kind, in prompt order
SectionsOf(k) == SelectSeq(prompt, LAMBDA sec : sec.kind = k)

\* the comments of one type in the list given, in list order
CommentsOfType(type) == SelectSeq(pcomments, LAMBDA c : c.type = type)

\* the place of a kind of section in the order the prompt must follow
SectionRank(k) ==
    CASE k = "General Feedback" -> 1
      [] k = "Specific Text Revisions Required" -> 2
      [] k = "Change" -> 2
      [] k = "General Comments" -> 3
      [] k = "Comment" -> 3
      [] OTHER -> 4

\* C13: the prompt derived from a comment list and a feedback holds, in this
\* order: a General Feedback section exactly when there is feedback; one
\* Change N entry for every selection-type comment of the list, numbered from
\* 1 in list order, quoting its selectedText and its feedback; every
\* general-type comment, numbered in list order; and last the revision
\* instructions, always.
C13_PromptSections ==
    prompt # <<>> =>
        /\ \A i \in 1..(Len(prompt) - 1) :
               SectionRank(prompt[i].kind) <= SectionRank(prompt[i + 1].kind)
        /\ SectionsOf("General Feedback")
               = IF pfeedback # "" THEN <<FeedbackSection(pfeedback)>> ELSE <<>>
        /\ \A sel \in {CommentsOfType("selection")} :
               SectionsOf("Change") = [n \in 1..Len(sel) |-> ChangeSection(n, sel[n])]
        /\ \A gen \in {CommentsOfType("general")} :
               SectionsOf("Comment") = [n \in 1..Len(gen) |-> CommentItem(n, gen[n])]
        /\ SectionsOf("Revision Instructions") = <<RevisionInstructions>>
        /\ prompt[Len(prompt)] = RevisionInstructions

\* -------------------------------------------------------- useTextSelection: properties

\* C14: once the component has unmounted the hook's state is never updated
\* again: not by a debounce or delay timer that was pending at the unmount,
\* and not by a selectionchange, mouseup or touchend handler or a
\* clearSelection invoked afterwards.
C14_NoUpdateAfterUnmount ==
    /\ [](~lateUpdate)
    /\ [][~alive => selectionState' = selectionState]_vars

\* the component unmounted while the debounce timer was pending, time has
\* gone by, a text is selected, and the state is still empty
C14_Witness ==
    /\ ~alive
    /\ elapsed >= 0 /\ elapsed < DebounceMs
    /\ published = 0
    /\ selection = [text |-> <<"a">>, place |-> "outside"]
    /\ selectionState = EmptyState

\* C15: selection processing is debounced. While the timer is pending it is
\* due DebounceMs after the last run of handleSelectionChange and no update
\* has been published since that run; an update is published only when
\* DebounceMs have gone by since the last run, at most once, and it is the
\* state derived from the selection held at that moment (the empty state
\* when its range cannot be read); the state changes otherwise only by
\* clearSelection.
C15_DebouncedOnce ==
    /\ []((isMounted /\ debounceTimeout >= 0)
          => (debounceTimeout = DebounceMs - elapsed /\ published = 0))
    /\ [](published <= 1)
    /\ [][published' = published + 1
          => /\ elapsed = DebounceMs
             /\ selectionState' = IF rangeError' THEN EmptyState
                                  ELSE ProcessSelection(selection)]_vars
    /\ [][(selectionState' # selectionState /\ published' # published + 1)
          => (selectionState' = EmptyState /\ selection' = NoSelection)]_vars

\* after a burst the last selection has been published, trimmed
C15_Witness ==
    /\ alive
    /\ published = 1
    /\ elapsed = DebounceMs
    /\ selection.text = <<" ", "a", "b", " ">>
    /\ selectionState = [selectedText |-> <<"a", "b">>, isActive |-> TRUE]

C17_OutsideSelectionIgnored ==
    [][(/\ containerRef # "document"
        /\ selection.place # "none"
        /\ ~Contains(containerRef, selection.place)
        /\ published' = published + 1)
       => ~selectionState'.isActive]_vars

\* C18: the mouseup and touchend listeners of a mounted hook are registered
\* on the container of its last render, and on no other element.
C18_ListenersFollowContainer ==
    alive => registered = ListenersFor(containerProp)

\* ------------------------------------------------- properties: C21..C30

\* the indexes of the tasks that are not headers and have the given status
Leaves(tasks, status) ==
    {n \in 1..Len(tasks) : ~tasks[n].isHeader /\ tasks[n].status = status}

\* C21: an invocation that runs while another one writes tasks.md never reads
\* a partially written file: the text it reads is a complete document, the
\* one from before the write or the one after it (every complete document of
\* these behaviours is one of RaceDocs, which set-status maps into itself).
C21_ReaderSeesCompleteFile ==
    \A p \in Procs : pc[p] # "idle" => content[p] \in RaceDocs

\* C22: the summary that list reports satisfies total = completed +
\* inProgress + pending; each count is the number of non-header tasks with
\* that status, so a header is counted in none of them and total is the
\* number of task lines minus the headers; the document of the worked
\* example gives total 2, completed 1, pending 1, inProgress 0.
C22_SummaryCounts ==
    (pc[1] = "done" /\ call[1].action = "list") =>
        \A tasks \in {parseTasksFromMarkdown(content[1])} :
        \A sum \in {result[1].summary} :
            Len(tasks) > 0 =>
                /\ sum.total = sum.completed + sum.inProgress + sum.pending
                /\ sum.completed = Cardinality(Leaves(tasks, "completed"))
                /\ sum.inProgress = Cardinality(Leaves(tasks, "in-progress"))
                /\ sum.pending = Cardinality(Leaves(tasks, "pending"))
                /\ sum.total = Len(tasks) - Cardinality({n \in 1..Len(tasks) : tasks[n].isHeader})
                /\ content[1] = ScenarioDoc =>
                       sum = [total |-> 2, completed |-> 1, inProgress |-> 0, pending |-> 1]

\* list has answered for a parent in progress with one completed child: the
\* parent is not counted
C22_Witness ==
    /\ pc[1] = "done" /\ call[1].action = "list"
    /\ content[1] = Join(<<TaskLine(0, "-", <<"1">>), TaskLine(2, "x", <<"1", ".", "1">>)>>, LF)
    /\ result[1].summary = [total |-> 1, completed |-> 1, inProgress |-> 0, pending |-> 0]

\* C23: on a document with at least one task next-pending succeeds with
\* exactly one of three answers: the first pending non-header task when there
\* is one; otherwise, when some non-header task is in progress, no next task
\* and the list of exactly the in-progress non-header tasks, in document
\* order; otherwise no next task and the report that all tasks are completed.
C23_NextPendingOutcomes ==
    (pc[1] = "done" /\ call[1].action = "next-pending") =>
        \A tasks \in {parseTasksFromMarkdown(content[1])} :
        \A pend \in {Leaves(tasks, "pending")} :
        \A prog \in {SortedSeq(Leaves(tasks, "in-progress"))} :
            Len(tasks) > 0 =>
                /\ result[1].success
                /\ pend # {} =>
                       /\ result[1].message = "Next pending task"
                       /\ \E n \in pend : result[1].task = tasks[n] /\ \A m \in pend : n <= m
                       /\ result[1].inProgress = <<>>
                /\ (pend = {} /\ Len(prog) > 0) =>
                       /\ result[1].message = "No pending tasks. task(s) in progress."
                       /\ result[1].task = NoParsedTask
                       /\ result[1].inProgress = [i \in 1..Len(prog) |-> tasks[prog[i]]]
                /\ (pend = {} /\ Len(prog) = 0) =>
                       /\ result[1].message = "All tasks are completed!"
                       /\ result[1].task = NoParsedTask
                       /\ result[1].inProgress = <<>>

\* no task is pending, a parent and its child are both in progress, and the
\* answer lists the child alone
C23_Witness ==
    /\ pc[1] = "done" /\ call[1].action = "next-pending"
    /\ content[1] = Join(<<TaskLine(0, "-", <<"1">>), TaskLine(2, "-", <<"1", ".", "1">>)>>, LF)
    /\ result[1].success
    /\ Len(result[1].inProgress) = 1
    /\ result[1].inProgress[1].id = <<"1", ".", "1">>

\* C24: once two respond calls on the same approval id have both completed,
\* the persisted record is exactly the record written by the call whose write
\* came last: the record that call read with its own status, response and
\* comments; what the other call wrote in between is not in it.
C24_RespondLastWriteWins ==
    ((\A p \in Procs : rpc[p] = "done") /\ rorder # <<>>) =>
        \A last \in {rorder[Len(rorder)]} :
            approval = Responded(rread[last], rargs[last].status,
                                 rargs[last].response, rargs[last].comments)

\* both calls were accepted, call 1 wrote first with a comment, call 2 wrote
\* last, and the record holds neither the status nor the comment of call 1
C24_Witness ==
    /\ \A p \in Procs : rpc[p] = "done"
    /\ rorder = <<1, 2>>
    /\ rread[1] = NewApproval /\ rread[2] = NewApproval
    /\ rargs[1] = [status |-> "needs-revision", response |-> "too vague", comments |-> <<SelA>>]
    /\ rargs[2].status = "approved"
    /\ approval.status = "approved"
    /\ approval.comments = rargs[2].comments
    /\ \A n \in 1..Len(approval.comments) : approval.comments[n] # SelA

\* C25: when ensure has appended to an existing non-empty ignore-file, the
\* previous content is a prefix of the new one, the appended comment line is
\* preceded by a blank line, and the line before that blank line is not
\* blank: exactly one blank line stands between the previous entries and the
\* comment.
C25_OneBlankLineBeforeComment ==
    (/\ EnsureDone(1)
     /\ gresult[1].success /\ gresult[1].action = "updated"
     /\ before[1].exists /\ Len(before[1].text) > 0) =>
        \A lines \in {SplitLines(gitignore.text)} :
        \A k \in {Len(lines) - 2} :
            /\ IsPrefix(before[1].text, gitignore.text)
            /\ k >= 3
            /\ lines[k] = PATTERN_COMMENT
            /\ lines[k - 1] = <<>>
            /\ lines[k - 2] # <<>>

\* C26: in every state of the hook an active state holds a text that has no
\* blank at either end and at least minLength characters, and an inactive
\* state is the empty state; whenever a selection is processed, the state
\* becomes the empty state if there is no selection or its trimmed text is
\* shorter than minLength (empty and whitespace-only included), and otherwise
\* is active with the trimmed text, unless the range cannot be read.
C26_ActiveMeansTrimmedAndLongEnough ==
    /\ [](selectionState.isActive =>
              /\ Len(selectionState.selectedText) >= minLength
              /\ selectionState.selectedText = Trim(selectionState.selectedText))
    /\ [](~selectionState.isActive => selectionState = EmptyState)
    /\ [][published' = published + 1 =>
              IF selection.place = "none" \/ Len(Trim(selection.text)) < minLength
              THEN selectionState' = EmptyState
              ELSE \/ rangeError'
                   \/ selectionState' = [selectedText |-> Trim(selection.text),
                                         isActive |-> TRUE]]_vars

\* with minLength 2 the one-letter selection "a" has been processed and the
\* state is empty
C26_Witness ==
    /\ alive
    /\ minLength = MinLength + 1
    /\ published = 1 /\ ~rangeError
    /\ selection.text = <<"a">>
    /\ selectionState = EmptyState

\* C27: when reading the range throws while a selection is processed, the
\* state becomes the empty inactive state whatever it was before and a
\* warning is logged; the state stays empty until the selection is processed
\* again.
C27_RangeErrorClearsState ==
    /\ [][(published' = published + 1 /\ rangeError')
          => (selectionState' = EmptyState /\ warned')]_vars
    /\ [](rangeError => (warned /\ selectionState = EmptyState))

\* a selection long enough was being processed, reading its range threw, and
\* the state is empty with a warning logged
C27_Witness ==
    /\ alive
    /\ rangeError /\ warned
    /\ published = 1
    /\ selection.text = <<" ", "a", "b", " ">>
    /\ selectionState = EmptyState

\* C28: a run of the version-bump script with the API key set has, when it
\* ends, written exactly one line to standard output, and that line is one of
\* the words major, minor, patch.
C28_StdoutIsOneWord ==
    (apiKey /\ bpc = "exit") => (Len(stdout) = 1 /\ stdout[1] \in BumpWords)

\* C29: a set-status call that repeats a successful set-status with the same
\* task id and status is reported as success again and leaves tasks.md as it
\* found it.
C29_SetStatusIdempotent ==
    (/\ pc[1] = "done"
     /\ call[1].action = "set-status"
     /\ prevResult[1].success) =>
        (result[1].success /\ file = content[1])

Below(dir, home) ==
    {d \in Ancestors(dir) :
        \A a \in Ancestors(dir) : Len(a) >= Len(d) => (a # home /\ a # <<>>)}

\* the nearest of those directories that holds a '.git' directory or file
Nearest(dirs) ==
    IF \E d \in dirs : gitEntry[d] \in {"dir", "file"}
    THEN CHOOSE d \in dirs :
             /\ gitEntry[d] \in {"dir", "file"}
             /\ \A e \in dirs : gitEntry[e] \in {"dir", "file"} => Len(e) <= Len(d)
    ELSE NoPath

\* C32: findGitRoot terminates; it returns the nearest directory, among the
\* start path and its ancestors below the home directory and the root, that
\* holds a '.git' directory or file, and null when there is none; it never
\* looks into the home directory or the filesystem root, so that a start
\* path equal to the home directory gives null.
C32_NearestGitBelowHome ==
    /\ <>(wpc = "done")
    /\ [](/\ homePath \notin examined
          /\ <<>> \notin examined
          /\ examined \subseteq Below(startPath, homePath)
          /\ wpc = "done" =>
                /\ gitRoot = Nearest(Below(startPath, homePath))
                /\ (startPath = homePath => gitRoot = NoPath))

\* the walk passed a start directory whose '.git' is neither directory nor
\* file and returned its parent, which holds a '.git' file; the root, which
\* holds a '.git' directory, was not reached
C32_Witness ==
    /\ wpc = "done"
    /\ startPath = <<"u", "p">>
    /\ homePath = <<"p">>
    /\ gitEntry[<<"u", "p">>] = "other"
    /\ gitEntry[<<"u">>] = "file"
    /\ gitEntry[<<>>] = "dir"
    /\ gitRoot = <<"u">>
    /\ examined = {<<"u", "p">>, <<"u">>}

\* the start path is the home directory, which holds '.git': null is returned
C32_WitnessHome ==
    /\ wpc = "done"
    /\ startPath = homePath
    /\ gitEntry[startPath] = "dir"
    /\ gitRoot = NoPath

\* the ignore-file holds a line that is, trimmed, the given pattern
HasPatternLine(text, pattern) ==
    With(SplitLines(text), LAMBDA lines :
        \E n \in 1..Len(lines) : Trim(lines[n]) = pattern)

\* C33: an unforced ensure call that has appended to an existing ignore-file
\* found no line with its configured pattern (the default or a custom one)
\* in it, so that a repeated call does not add the pattern a second time.
C33_AppendsOnlyAbsentPattern ==
    (/\ EnsureDone(1)
     /\ ~cfg[1].force
     /\ before[1].exists
     /\ gresult[1].action = "updated")
    => ~HasPatternLine(before[1].text, cfg[1].pattern)

\* C34: when removePattern has returned success, updated or skipped, the
\* ignore-file holds no line that isPatternPresent takes for the workflow
\* entry, and the ensure call that follows on the repository, with no
\* file-system call throwing, returns updated.
C34_RemoveThenEnsureUpdates ==
    /\ (/\ EnsureDone(1)
        /\ calls[1] = 0
        /\ removal.called
        /\ gresult[1].success
        /\ gitignore.exists)
       => ~isPatternPresent(gitignore.text)
    /\ (/\ EnsureDone(1)
        /\ calls[1] = 1
        /\ removal.called
        /\ prev[1] \in {"updated", "skipped"}
        /\ before[1].exists
        /\ gresult[1].error = "none")
       => gresult[1].action = "updated"

\* C35: whenever getApprovalStatusHandler has returned, the ApprovalStorage
\* it started, if any, has been stopped: when the approval was found, when
\* it was not, and when getApproval or a later step threw.
C35_StartedStorageIsStopped ==
    hpc = "done" => storage # "started"

\* on the two paths without an exception the storage is stopped before the
\* response is put together
C35_StoppedWithoutException ==
    (hpc = "done" /\ polled # HandlerFailed) => storage # "started"

\* the record calls for revision and carries comments
WantsRevision(rec) == rec.status = "needs-revision" /\ Len(rec.comments) > 0

\* C36: no step of getApprovalStatusHandler changes the approval record; the
\* response for a record that was found carries the record's comments and a
\* revision prompt when the status is needs-revision and the comment list
\* is not empty, carries neither for any other record (pending, approved,
\* rejected, needs-revision without comments), and has isCompleted true for
\* approved and rejected only.
C36_CommentsOnlyForRevision ==
    /\ [][hpc' # hpc => (approval' = approval /\ responds' = responds)]_vars
    /\ [][(hpc = "respond" /\ hpc' = "done" /\ hfound) =>
            /\ polled'.success
            /\ polled'.status = approval.status
            /\ polled'.hasComments = WantsRevision(approval)
            /\ polled'.hasRevisionPrompt = WantsRevision(approval)
            /\ polled'.comments = IF WantsRevision(approval)
                                  THEN MapComments(approval.comments) ELSE <<>>
            /\ polled'.isCompleted = (approval.status \in {"approved", "rejected"})]_vars

\* a request for revision with two comments has been polled: the response
\* carries both and the prompt, and is not completed
C36_Witness ==
    /\ hpc = "done"
    /\ approval.status = "needs-revision"
    /\ polled.status = "needs-revision"
    /\ polled.hasComments /\ polled.hasRevisionPrompt
    /\ polled.comments = MapComments(<<SelA, GenB>>)
    /\ ~polled.isCompleted

\* a rejection that came with comments has been polled: the response carries
\* neither comments nor prompt, and is completed
C36_WitnessRejected ==
    /\ hpc = "done"
    /\ approval.status = "rejected"
    /\ Len(approval.comments) > 0
    /\ polled.status = "rejected"
    /\ ~polled.hasComments /\ ~polled.hasRevisionPrompt
    /\ polled.comments = <<>>
    /\ polled.isCompleted

\* C37: at every moment the browser holds at most one pending debounce timer
\* and at most one pending delay timer of the hook, the ones its two timer
\* references name: a handler that schedules a timer while one of that kind
\* is pending has cancelled that one.
C37_OneTimerOfEachKind ==
    /\ liveDebounce = (IF debounceTimeout >= 0 THEN 1 ELSE 0)
    /\ liveDelay = (IF delayTimeout >= 0 THEN 1 ELSE 0)
    /\ liveDebounce <= 1
    /\ liveDelay <= 1

\* a touchend has replaced the delay timer of an earlier event while that
\* timer and a debounce timer were pending: one timer of each kind is left
C37_Witness ==
    /\ alive
    /\ lastCleared = "delay"
    /\ delayTimeout = TouchDelayMs
    /\ debounceTimeout > 0
    /\ liveDelay = 1
    /\ liveDebounce = 1

\* a selectionchange has replaced the debounce timer that was pending
C37_WitnessDebounce ==
    /\ alive
    /\ lastCleared = "debounce"
    /\ debounceTimeout = DebounceMs
    /\ liveDebounce = 1

\* the timeouts created through the instrumented setTimeout that have
\* neither fired nor been cleared
PendingTimeouts == {id \in TimerIds : timers[id] = "pending"}

\* C38: while the monitor is installed, metrics.timeoutCount is the number
\* of timeouts that were set and have neither fired nor been cleared, and
\* is never negative.
C38_CountIsPendingTimeouts ==
    /\ timeoutCount = Cardinality(PendingTimeouts)
    /\ timeoutCount >= 0

\* the counter is never negative, whatever is cleared
C38_CountNeverNegative == timeoutCount >= 0

====
